---- MODULE Spec2Model ----
(***************************************************************************)
(* State-machine model of src/script.js (first variant, lines 1-1524):    *)
(* the EducationApp shell and its components.  The browser is the         *)
(* environment: it dispatches DOM events, fires timers and runs the       *)
(* animation-frame callbacks.  JavaScript is single threaded, so every    *)
(* listener, timer callback and the synchronous part of startup is one    *)
(* atomic action.                                                         *)
(*                                                                         *)
(* Numbers that are floats in the source are fixed-point integers here:   *)
(* particle coordinates are in units of 1/Scale percentage point.         *)
(***************************************************************************)
EXTENDS Integers, Sequences, FiniteSets, TLC

\* ------------------------------------------------------------------ bounds
Scale == 4              \* fixed-point units per percentage point
MaxSeed == 1            \* number of random-number streams explored
MaxRafId == 4           \* requestAnimationFrame handles issued in a run
MaxTimers == 2          \* pending timers of one kind
MaxOrientationTimers == 1   \* pending orientation-change timers
MaxDestroyCalls == 2    \* destroy() calls on one instance
MaxScaleSuffix == 2     \* ' scale(1.5)' suffixes appended to a transform
MaxUrlLen == 4          \* pieces of text in an iframe's initial src
MaxPlayCalls == 3       \* playVideo calls in a row on one iframe
MaxQueuedEntries == 3   \* entries an IntersectionObserver holds for one callback
MaxRipples == 3         \* ripple elements in a card at a time
StartTime == 1000        \* Date.now() when the script starts
MaxLoadTicks == 5        \* steps of the clock followed while the overlay is up
MaxElapsed == 150       \* ms of clock followed after StartTime

\* The particle systems a resize replaces: the first one, so that a run has
\* one rebuilt field.
ReplacedGens == {1}

\* ------------------------------------------------------- program constants
MobileWidth == 768          \* ParticleSystem.init / CustomCursor media query
MaxParticles == 50          \* createParticles
WidthPerParticle == 30      \* createParticles
DefaultNavHeight == 70      \* setupSmoothScrolling
ScrollGutter == 20          \* setupSmoothScrolling
RingOffset == 20            \* updateCursor
DotOffset == 4              \* updateCursor
RingLerpPercent == 10       \* updateCursor: 0.1
DotLerpPercent == 15        \* updateCursor: 0.15
DebounceDelay == 16     \* PERFORMANCE_CONFIG.debounceDelay
OrientationDelay == 100 \* setTimeout(handleResize, 100)
MinimumLoadTime == 1500 \* LoadingManager.minimumLoadTime
RemoveDelay == 500      \* hide(): setTimeout(..., 500)
ThrottleDelay == 100    \* PERFORMANCE_CONFIG.throttleDelay
RippleDelay == 600          \* createRipple
ScrolledOffset == 100   \* handleScroll: currentScroll > 100
DelayStep == 100            \* observeElements: index * 100
HeroDelayStep == 200        \* animateHeroElements: index * 200
NoDelay == 0 - 1            \* element.dataset.delay is not set

\* ------------------------------------------------------------------- state
VARIABLES
    \* environment: the document and the browser
    dom,                    \* the elements the page contains
    hasMatchMedia,          \* window.matchMedia exists
    isLocalStorageAvailable,
    storageDenied,          \* reading localStorage throws too, not only writing
    storedTheme,            \* localStorage[STORAGE_KEYS.THEME], "none" when absent
    systemDark,             \* (prefers-color-scheme: dark) matches
    innerWidth,             \* window.innerWidth
    prefersReducedMotion,
    documentHidden,         \* document.hidden
    marked,                 \* the .reveal-animation elements, numbered in document order
    hero,                   \* those of them inside .hero
    hasIntersectionObserver,    \* 'IntersectionObserver' in window
    intersecting,           \* the marked elements that intersect the viewport
    \* EducationApp
    appState,               \* "start", "hiding" (init awaits hide()), "ready"
    components,             \* keys of this.components
    minimalWired,           \* initMinimalFunctionality installed its listeners
    escaped,                \* <<method, cause>>: exceptions that left a method
    \* LoadingManager
    isLoading,
    loadingScreen,          \* [hidden, displayNone, inDom]
    hideTimer, removeTimer, loadCompleteTimer,
    \* NavigationManager
    isMenuOpen,
    sidebar,                \* [active, ariaModal]
    menuButton,             \* [transform, ariaExpanded]
    bodyOverflow,           \* document.body.style.overflow
    autoCloseTimers,
    staleTimers,            \* the pending auto-close timers set before the menu was last closed
    lastScrollTo,           \* <<>> or <<top>> of the latest window.scrollTo
    \* ThemeManager
    currentTheme, dataTheme, toggleIcon, ariaPressed, bodyTransition,
    transitionTimers,
    \* ParticleSystem
    ps,                     \* this.components.particleSystem
    container,              \* particle elements in #heroParticles
    resizeTimer, orientationTimers,
    \* requestAnimationFrame
    rafQueue, nextRafId,
    \* CustomCursor
    cur, ring, dot,
    \* ScrollAnimationManager and the reveal state of the document
    observer,               \* this.observer is not null
    observed,               \* the observation targets of this.observer
    reported,               \* per target: the isIntersecting last delivered
    revealed,               \* elements with class 'revealed'
    dataDelay,              \* element.dataset.delay
    lastTargets,            \* the elements the latest observeElements() enumerated
    revealTimers,           \* pending timers of the observer callback: [el, delay]
    heroTimers,             \* pending timers of animateHeroElements: [el, delay]
    \* VideoManager
    videoCards,             \* the .video-card elements with an iframe and an overlay
    videoSrc,               \* per card: the src attribute of its iframe
    playCalls,              \* per card: playVideo calls since the last other event
    hoveredCard,            \* the card the pointer entered last (0: none)
    \* time
    timed,                  \* whether the specification follows the clock
    now,                    \* Date.now(), in ms
    resizeDue,              \* when the debounce timeout of handleResize is due
    orientationDue,         \* when the pending orientation-change timeouts are due
    lastResizeAt,           \* the time of the latest 'resize' event
    startTime,              \* LoadingManager.startTime
    hideDue,                \* when the timeout hide() awaits is due
    removeDue,              \* when the 500 ms timeout of hide() is due
    hiddenAt,               \* when the overlay got class 'hidden'
    orientationFired,       \* times of the orientation changes whose timeout has
                            \* called handleResize since the latest rebuild
    \* the throttled scroll handler of NavigationManager
    pageYOffset,            \* window.pageYOffset
    scrollPosition,         \* the global scrollPosition
    navStyle,               \* this.nav.style: background and boxShadow
    lastExecTime,           \* throttle: lastExecTime
    throttleTimer,          \* throttle: a timeout is pending (0 or 1)
    throttleDue,            \* when that timeout is due
    execCount,              \* executions of the scroll handler so far, up to 2
    prevExecAt, lastExecAt, \* the times of the latest two executions
    \* VideoManager.setupLazyLoading: one IntersectionObserver per iframe
    cardIntersecting,       \* the cards whose iframe intersects the viewport
    lazy,                   \* per card: [observed, reported, queue, hints]
    \* InteractionManager: the ripples of the category card
    ripples,                \* the ripple spans in the card: when each was created
    \* the user's theme choice
    userToggled,            \* toggleTheme has run on a click of the user
    \* the pointer and the interactive elements
    hoverDepth,             \* interactive elements the pointer is over (nested ones count)
    preHover,               \* the ring's [scale, opacity] when the pointer came over one
    \* the latest click on a navigation link
    linkClick,              \* [href, targetExists, offsetTop, defaultPrevented, scrolls]
    \* the browser's event loop
    lastEvent               \* the event, timer or frame dispatched last

envVars == <<dom, hasMatchMedia, isLocalStorageAvailable, storageDenied,
            prefersReducedMotion, marked, hero, hasIntersectionObserver>>
mutEnv == <<systemDark, innerWidth, documentHidden>>
appVars == <<appState, components, minimalWired>>
loadVars == <<isLoading, loadingScreen, hideTimer, removeTimer, loadCompleteTimer>>
menuVars == <<isMenuOpen, sidebar, menuButton>>
navVars == <<isMenuOpen, sidebar, menuButton, bodyOverflow, autoCloseTimers, lastScrollTo,
            staleTimers>>
themeVars == <<currentTheme, dataTheme, toggleIcon, ariaPressed, bodyTransition,
               transitionTimers>>
animVars == <<ps, container, rafQueue, nextRafId, cur, ring, dot>>
resizeVars == <<resizeTimer, orientationTimers>>
observerVars == <<observer, observed, reported>>
revealVars == <<intersecting, observer, observed, reported, revealed, dataDelay,
                lastTargets, revealTimers, heroTimers>>
videoVars == <<videoCards, videoSrc, playCalls, hoveredCard>>
\* The parts of the state that only their own handlers touch.
clockVars == <<timed, now>>
resizeTimeVars == <<resizeDue, orientationDue, lastResizeAt, orientationFired>>
loadTimeVars == <<startTime, hideDue, removeDue, hiddenAt>>
scrollVars == <<pageYOffset, scrollPosition, navStyle, lastExecTime, throttleTimer,
               throttleDue, execCount, prevExecAt, lastExecAt>>
clickVars == <<linkClick>>
hoverVars == <<hoverDepth, preHover>>
lazyVars == <<cardIntersecting, lazy>>
choiceVars == <<userToggled>>
rippleVars == <<ripples>>
extVars == <<videoVars, scrollVars, clockVars, resizeTimeVars, loadTimeVars, clickVars,
            hoverVars, lazyVars, choiceVars, rippleVars>>
vars == <<envVars, extVars, mutEnv, storedTheme, appVars, escaped, loadVars, navVars, themeVars,
          animVars, resizeVars, revealVars, lastEvent>>

Min(a, b) == IF a < b THEN a ELSE b

\* The elements the components look up.  "navLink" is a .nav-link in the
\* header, "sidebarLink" a .sidebar-link inside #sidebar, "categoryLink" the
\* .category-link inside the .category-card "categoryCard".
DomElements == {"loadingScreen", "themeToggle", "themeIcon", "menuButton",
                "sidebar", "sidebarClose", "nav", "navLink", "sidebarLink",
                "cursor", "cursorDot", "heroParticles", "categoryCard",
                "categoryLink"}

\* Construction order of initializeComponents.
Order == <<"loadingManager", "themeManager", "performanceOptimizer",
           "navigationManager", "scrollAnimationManager", "customCursor",
           "particleSystem", "videoManager", "interactionManager">>
NoThrow == Len(Order) + 1
CustomCursorPosition == CHOOSE i \in 1..Len(Order) : Order[i] = "customCursor"

\* ============================================================ ThemeManager

ThemeState == [currentTheme |-> currentTheme, dataTheme |-> dataTheme,
               toggleIcon |-> toggleIcon, ariaPressed |-> ariaPressed,
               bodyTransition |-> bodyTransition,
               transitionTimers |-> transitionTimers, storedTheme |-> storedTheme]

SetTheme(t) ==
    /\ t.transitionTimers <= MaxTimers
    /\ currentTheme' = t.currentTheme
    /\ dataTheme' = t.dataTheme
    /\ toggleIcon' = t.toggleIcon
    /\ ariaPressed' = t.ariaPressed
    /\ bodyTransition' = t.bodyTransition
    /\ transitionTimers' = t.transitionTimers
    /\ storedTheme' = t.storedTheme

\* C10 mutant: the system preference is not consulted.
getInitialTheme_NoSystem(available, saved, matchMedia, dark) ==
    IF available /\ saved # "none" THEN saved ELSE "light"

\* C9 mutant: the system preference takes precedence over the stored value.
getInitialTheme_SystemFirst(available, saved, matchMedia, dark) ==
    IF matchMedia /\ dark THEN "dark"
    ELSE IF available /\ saved # "none" THEN saved
    ELSE "light"

getInitialTheme(available, saved, matchMedia, dark) ==
    IF available /\ saved # "none" THEN saved
    ELSE IF matchMedia /\ dark THEN "dark"
    ELSE "light"

\* C12 mutant: applyTheme persists the theme it applies.
applyTheme_Persists(t, theme) ==
    [t EXCEPT !.currentTheme = theme,
              !.dataTheme = theme,
              !.storedTheme = theme,
              !.toggleIcon = IF "themeToggle" \in dom /\ "themeIcon" \in dom
                             THEN (IF theme = "dark" THEN "fas fa-sun" ELSE "fas fa-moon")
                             ELSE @,
              !.ariaPressed = IF "themeToggle" \in dom
                              THEN (IF theme = "dark" THEN "true" ELSE "false")
                              ELSE @,
              !.bodyTransition = TRUE,
              !.transitionTimers = @ + 1]

\* applyTheme: the setTimeout that clears the body transition is one more
\* pending transition timer.
applyTheme(t, theme) ==
    [t EXCEPT !.currentTheme = theme,
              !.dataTheme = theme,
              !.toggleIcon = IF "themeToggle" \in dom /\ "themeIcon" \in dom
                             THEN (IF theme = "dark" THEN "fas fa-sun" ELSE "fas fa-moon")
                             ELSE @,
              !.ariaPressed = IF "themeToggle" \in dom
                              THEN (IF theme = "dark" THEN "true" ELSE "false")
                              ELSE @,
              !.bodyTransition = TRUE,
              !.transitionTimers = @ + 1]

\* C11 mutant: toggleTheme always switches to dark.
toggleTheme_AlwaysDark(t) ==
    LET t1 == applyTheme(t, "dark")
    IN IF isLocalStorageAvailable THEN [t1 EXCEPT !.storedTheme = "dark"] ELSE t1

toggleTheme(t) ==
    LET newTheme == IF t.currentTheme = "light" THEN "dark" ELSE "light"
        t1 == applyTheme(t, newTheme)
    IN IF isLocalStorageAvailable THEN [t1 EXCEPT !.storedTheme = newTheme] ELSE t1

\* C8 mutant: the listener applies the system scheme without looking at storage.
systemThemeListener_NoCheck(t, matches) ==
    applyTheme(t, IF matches THEN "dark" ELSE "light")

\* The 'change' listener of the (prefers-color-scheme: dark) media query.
systemThemeListener(t, matches) ==
    IF ~isLocalStorageAvailable \/ t.storedTheme = "none"
    THEN applyTheme(t, IF matches THEN "dark" ELSE "light")
    ELSE t

ThemeManager_constructor(t) ==
    applyTheme(t, getInitialTheme(isLocalStorageAvailable, t.storedTheme,
                                  hasMatchMedia, systemDark))

\* 'click' listener initMinimalFunctionality puts on #themeToggle.
minimalThemeListener(t) ==
    IF minimalWired
    THEN [t EXCEPT !.dataTheme = IF @ = "dark" THEN "light" ELSE "dark"]
    ELSE t

\* A click on #themeToggle: the listeners in registration order.
ThemeToggleClick ==
    /\ lastEvent' = "themeToggleClick"
    /\ appState # "start"
    /\ "themeToggle" \in dom
    /\ LET t1 == IF "themeManager" \in components
                 THEN toggleTheme(ThemeState) ELSE ThemeState
       IN SetTheme(minimalThemeListener(t1))
    /\ userToggled' = (userToggled \/ "themeManager" \in components)
    /\ UNCHANGED <<envVars, rippleVars, videoVars, scrollVars, clockVars,
                   resizeTimeVars, loadTimeVars, clickVars, hoverVars,
                   lazyVars, systemDark, innerWidth, documentHidden, appVars,
                   escaped, revealVars, loadVars, navVars, animVars,
                   resizeVars>>

\* The operating system switches its colour scheme; the media query
\* dispatches 'change' with e.matches the new value.
SystemSchemeChange ==
    /\ lastEvent' = "systemSchemeChange"
    /\ appState # "start"
    /\ systemDark' = ~systemDark
    /\ IF hasMatchMedia /\ "themeManager" \in components
       THEN SetTheme(systemThemeListener(ThemeState, ~systemDark))
       ELSE UNCHANGED <<themeVars, storedTheme>>
    /\ UNCHANGED <<envVars, extVars, innerWidth, documentHidden, appVars, escaped, revealVars,
                   loadVars,
                   navVars, animVars, resizeVars>>

\* setTimeout(() => { document.body.style.transition = ''; }, 300) fires.
TransitionTimerFire ==
    /\ lastEvent' = "transitionTimer"
    /\ transitionTimers > 0
    /\ transitionTimers' = transitionTimers - 1
    /\ bodyTransition' = FALSE
    /\ UNCHANGED <<envVars, extVars, systemDark, innerWidth, documentHidden, appVars, escaped,
                   revealVars,
                   loadVars, navVars, animVars, resizeVars, storedTheme,
                   currentTheme, dataTheme, toggleIcon, ariaPressed>>

\* ================================ ThemeManager of the second variant
\* (class ThemeManager of EducatumApp, src/script.js:1635-1682).  Its methods
\* have no try/catch and do not consult isLocalStorageAvailable, so a result
\* carries `threw`: "none", or the cause of the exception that ended the call
\* ("storage": a localStorage access, "icon": the toggle has no <i> child).
\* The environment of this variant always has window.matchMedia.

Returned(t) == [state |-> t, threw |-> "none"]
Thrown(t, cause) == [state |-> t, threw |-> cause]

\* localStorage.getItem throws when storage access is denied; setItem throws
\* whenever the availability probe of lines 36-46 would have failed.
getItemThrows == ~isLocalStorageAvailable /\ storageDenied
setItemThrows == ~isLocalStorageAvailable

Educatum_applyTheme(t, theme) ==
    LET t1 == [t EXCEPT !.currentTheme = theme, !.dataTheme = theme]
    IN IF "themeToggle" \in dom /\ "themeIcon" \notin dom
       THEN Thrown(t1, "icon")
       ELSE Returned([t1 EXCEPT
                !.toggleIcon = IF "themeToggle" \in dom
                               THEN (IF theme = "dark" THEN "fas fa-sun" ELSE "fas fa-moon")
                               ELSE @,
                !.bodyTransition = TRUE,
                !.transitionTimers = @ + 1])

Educatum_getInitialTheme(t) ==
    IF getItemThrows THEN [value |-> "none", threw |-> "storage"]
    ELSE IF t.storedTheme # "none" THEN [value |-> t.storedTheme, threw |-> "none"]
    ELSE [value |-> IF systemDark THEN "dark" ELSE "light", threw |-> "none"]

Educatum_ThemeManager_constructor(t) ==
    LET initial == Educatum_getInitialTheme(t)
    IN IF initial.threw # "none" THEN Thrown(t, initial.threw)
       ELSE Educatum_applyTheme(t, initial.value)

Educatum_toggleTheme(t) ==
    LET newTheme == IF t.currentTheme = "light" THEN "dark" ELSE "light"
        applied == Educatum_applyTheme(t, newTheme)
    IN IF applied.threw # "none" THEN applied
       ELSE IF setItemThrows THEN Thrown(applied.state, "storage")
       ELSE Returned([applied.state EXCEPT !.storedTheme = newTheme])

Educatum_systemThemeListener(t, matches) ==
    IF getItemThrows THEN Thrown(t, "storage")
    ELSE IF t.storedTheme = "none"
         THEN Educatum_applyTheme(t, IF matches THEN "dark" ELSE "light")
         ELSE Returned(t)

\* The exceptions recorded so far plus one that left `method`.
Escapes(result, method) ==
    IF result.threw = "none" THEN escaped
    ELSE escaped \cup {<<method, result.threw>>}

\* EducatumApp.init on a narrow viewport with the loading overlay present:
\* initializeComponents has no try/catch, so an exception of the ThemeManager
\* constructor ends it with only the LoadingManager built and reaches the
\* catch of init(), which runs handleInitError and initMinimalFunctionality.
\* Otherwise hide() starts its wait.
EducatumAppInit ==
    /\ lastEvent' = "init"
    /\ appState = "start"
    /\ innerWidth <= MobileWidth
    /\ "loadingScreen" \in dom
    /\ LET built == Educatum_ThemeManager_constructor(ThemeState)
       IN /\ SetTheme(built.state)
          /\ escaped' = Escapes(built, "ThemeManager")
          /\ IF built.threw # "none"
             THEN /\ components' = {"loadingManager"}
                  /\ loadingScreen' = [loadingScreen EXCEPT !.displayNone = TRUE]
                  /\ bodyOverflow' = "auto"
                  /\ minimalWired' = TRUE
                  /\ appState' = "ready"
                  /\ hideTimer' = hideTimer
             ELSE /\ components' = {Order[i] : i \in 1..Len(Order)}
                  /\ hideTimer' = 1
                  /\ appState' = "hiding"
                  /\ UNCHANGED <<loadingScreen, bodyOverflow, minimalWired>>
          /\ observer' = (built.threw = "none" /\ hasIntersectionObserver)
    /\ marked = {} /\ hasIntersectionObserver
    /\ UNCHANGED <<envVars, extVars, mutEnv, isLoading, removeTimer, loadCompleteTimer,
                   menuVars, autoCloseTimers, staleTimers, lastScrollTo, animVars, resizeVars,
                   intersecting, observed, reported, revealed, dataDelay,
                   lastTargets, revealTimers, heroTimers>>

\* A click on #themeToggle in the second variant: the ThemeManager listener
\* if the constructor got as far as registering it, then the listener of
\* initMinimalFunctionality.  An exception of a listener does not stop the
\* dispatch to the next one.
EducatumThemeToggleClick ==
    /\ lastEvent' = "themeToggleClick"
    /\ appState # "start"
    /\ "themeToggle" \in dom
    /\ LET toggled == IF "themeManager" \in components
                      THEN Educatum_toggleTheme(ThemeState)
                      ELSE Returned(ThemeState)
       IN /\ SetTheme(minimalThemeListener(toggled.state))
          /\ escaped' = Escapes(toggled, "toggleTheme")
    /\ UNCHANGED <<envVars, extVars, mutEnv, appVars, loadVars, navVars, animVars,
                   resizeVars, revealVars>>

EducatumSystemSchemeChange ==
    /\ lastEvent' = "systemSchemeChange"
    /\ appState # "start"
    /\ systemDark' = ~systemDark
    /\ LET heard == IF "themeManager" \in components
                    THEN Educatum_systemThemeListener(ThemeState, ~systemDark)
                    ELSE Returned(ThemeState)
       IN /\ SetTheme(heard.state)
          /\ escaped' = Escapes(heard, "systemThemeListener")
    /\ UNCHANGED <<envVars, extVars, innerWidth, documentHidden, appVars, loadVars,
                   navVars, animVars, resizeVars, revealVars>>

\* ======================================================= NavigationManager

NavState == [isMenuOpen |-> isMenuOpen, sidebar |-> sidebar,
             menuButton |-> menuButton, bodyOverflow |-> bodyOverflow]

SetNav(n) ==
    /\ isMenuOpen' = n.isMenuOpen
    /\ sidebar' = n.sidebar
    /\ menuButton' = n.menuButton
    /\ bodyOverflow' = n.bodyOverflow

openMenu(n) ==
    [isMenuOpen |-> TRUE,
     sidebar |-> IF "sidebar" \in dom
                 THEN [active |-> TRUE, ariaModal |-> "true"] ELSE n.sidebar,
     menuButton |-> IF "menuButton" \in dom
                    THEN [transform |-> "rotate(90deg)", ariaExpanded |-> "true"]
                    ELSE n.menuButton,
     bodyOverflow |-> "hidden"]

closeMenu(n) ==
    [isMenuOpen |-> FALSE,
     sidebar |-> IF "sidebar" \in dom
                 THEN [active |-> FALSE, ariaModal |-> "false"] ELSE n.sidebar,
     menuButton |-> IF "menuButton" \in dom
                    THEN [transform |-> "rotate(0deg)", ariaExpanded |-> "false"]
                    ELSE n.menuButton,
     bodyOverflow |-> "auto"]

toggleMenu(n) == IF n.isMenuOpen THEN closeMenu(n) ELSE openMenu(n)

navWired == "navigationManager" \in components

\* document 'click' listener of setupMobileMenu; inside: the target lies in
\* #sidebar or in #menuButton.
outsideClickListener(n, inside) ==
    IF navWired /\ n.isMenuOpen /\ "sidebar" \in dom /\ "menuButton" \in dom /\ ~inside
    THEN closeMenu(n) ELSE n

\* C15 mutant: the Escape listener closes the menu without looking at isMenuOpen.
escapeListener_Unguarded(n) == IF navWired THEN closeMenu(n) ELSE n

\* C32 mutant: the navigation listener ignores Escape, so only the
\* overlay-closing listener acts on it.
escapeListener_Ignored(n) == n

\* document 'keydown' listener of setupMobileMenu, key Escape.
escapeListener(n) == IF navWired /\ n.isMenuOpen THEN closeMenu(n) ELSE n

\* document 'keydown' listener of InteractionManager.setupAccessibility, key
\* Escape: removes 'active' from every .modal.active and .sidebar.active.
overlayEscapeListener(n) ==
    IF "interactionManager" \in components /\ "sidebar" \in dom /\ n.sidebar.active
    THEN [n EXCEPT !.sidebar.active = FALSE] ELSE n

\* 'click' listener initMinimalFunctionality puts on #menuButton.
minimalMenuListener(n) ==
    IF minimalWired /\ "sidebar" \in dom
    THEN [n EXCEPT !.sidebar.active = ~n.sidebar.active] ELSE n

\* 'click' listener initMinimalFunctionality puts on #sidebarClose.
minimalCloseListener(n) ==
    IF minimalWired /\ "sidebar" \in dom
    THEN [n EXCEPT !.sidebar.active = FALSE] ELSE n

\* All listeners a click on #menuButton reaches, in registration order, then
\* the document listener on the bubble.
menuButtonClick(n) ==
    LET n1 == IF navWired THEN toggleMenu(n) ELSE n
        n2 == minimalMenuListener(n1)
    IN outsideClickListener(n2, TRUE)

sidebarCloseClick(n) ==
    LET n1 == IF navWired THEN closeMenu(n) ELSE n
        n2 == minimalCloseListener(n1)
    IN outsideClickListener(n2, TRUE)

MenuButtonClick ==
    /\ lastEvent' = "menuButtonClick"
    /\ appState # "start"
    /\ "menuButton" \in dom
    /\ SetNav(menuButtonClick(NavState))
    /\ staleTimers' = IF isMenuOpen /\ ~isMenuOpen' THEN autoCloseTimers ELSE staleTimers
    /\ UNCHANGED <<envVars, extVars, mutEnv, storedTheme, appVars, escaped, revealVars, loadVars,
                   autoCloseTimers,
                   lastScrollTo, themeVars, animVars, resizeVars>>

SidebarCloseClick ==
    /\ lastEvent' = "sidebarCloseClick"
    /\ appState # "start"
    /\ "sidebarClose" \in dom
    /\ SetNav(sidebarCloseClick(NavState))
    /\ staleTimers' = IF isMenuOpen /\ ~isMenuOpen' THEN autoCloseTimers ELSE staleTimers
    /\ UNCHANGED <<envVars, extVars, mutEnv, storedTheme, appVars, escaped, revealVars, loadVars,
                   autoCloseTimers,
                   lastScrollTo, themeVars, animVars, resizeVars>>

\* A click on the page outside #sidebar and #menuButton, on no link.
OutsideClick ==
    /\ lastEvent' = "outsideClick"
    /\ appState # "start"
    /\ SetNav(outsideClickListener(NavState, FALSE))
    /\ staleTimers' = IF isMenuOpen /\ ~isMenuOpen' THEN autoCloseTimers ELSE staleTimers
    /\ UNCHANGED <<envVars, extVars, mutEnv, storedTheme, appVars, escaped, revealVars, loadVars,
                   autoCloseTimers,
                   lastScrollTo, themeVars, animVars, resizeVars>>

EscapeKey ==
    /\ lastEvent' = "escapeKey"
    /\ appState # "start"
    /\ SetNav(overlayEscapeListener(escapeListener(NavState)))
    /\ staleTimers' = IF isMenuOpen /\ ~isMenuOpen' THEN autoCloseTimers ELSE staleTimers
    /\ UNCHANGED <<envVars, extVars, mutEnv, storedTheme, appVars, escaped, revealVars, loadVars,
                   autoCloseTimers,
                   lastScrollTo, themeVars, animVars, resizeVars>>

\* Offsets (px) of the anchor targets and the measured header height.
TargetOffsets == {0, 600}
NavOffsetHeight == 80

\* C16 mutant: the anchor listener scrolls but never schedules the closing.
AnchorLinkClick_NoTimer(link, targetExists, offsetTop) ==
    /\ lastEvent' = "anchorLinkClick"
    /\ appState # "start"
    /\ navWired
    /\ link \in dom
    /\ LET navHeight == IF "nav" \in dom THEN NavOffsetHeight ELSE DefaultNavHeight
       IN lastScrollTo' = IF targetExists
                          THEN <<offsetTop - navHeight - ScrollGutter>>
                          ELSE lastScrollTo
    /\ autoCloseTimers' = autoCloseTimers
    /\ SetNav(outsideClickListener(NavState, link = "sidebarLink"))
    /\ staleTimers' = IF isMenuOpen /\ ~isMenuOpen' THEN autoCloseTimers ELSE staleTimers
    /\ UNCHANGED <<envVars, extVars, mutEnv, storedTheme, appVars, escaped, revealVars, loadVars,
                   themeVars,
                   animVars, resizeVars>>

\* The href attributes a navigation link can carry: none, another page, a
\* bare '#', and '#' followed by an id.
Hrefs == {"null", "page.html", "#", "#id"}

startsWithHash(href) == href \in {"#", "#id"}

\* document.querySelector(href) throws a SyntaxError for the selector '#'.
querySelectorThrows(href) == href = "#"

NoLinkClick == [href |-> "null", targetExists |-> FALSE, offsetTop |-> 0,
                defaultPrevented |-> FALSE, scrolls |-> <<>>]

\* C31 mutant: the gutter is not subtracted.
targetPosition_NoGutter(offsetTop) ==
    offsetTop - (IF "nav" \in dom THEN NavOffsetHeight ELSE DefaultNavHeight)

\* targetPosition of setupSmoothScrolling.
targetPosition(offsetTop) ==
    LET navHeight == IF "nav" \in dom THEN NavOffsetHeight ELSE DefaultNavHeight
    IN offsetTop - navHeight - ScrollGutter

\* 'click' listener of setupSmoothScrolling on a .nav-link or .sidebar-link,
\* then the document 'click' listener on the bubble; link is "navLink" or
\* "sidebarLink", targetExists: querySelector(href) finds an element,
\* offsetTop its offset.  linkClick records the event and what the listener
\* did with it.
NavLinkClick(link, href, targetExists, offsetTop) ==
    /\ lastEvent' = "anchorLinkClick"
    /\ appState # "start"
    /\ navWired
    /\ link \in dom
    /\ targetExists => href = "#id"
    /\ LET scrollsTo == startsWithHash(href) /\ targetExists
           schedules == scrollsTo /\ isMenuOpen
       IN /\ schedules => autoCloseTimers < MaxTimers
          /\ linkClick' = [href |-> href, targetExists |-> targetExists,
                           offsetTop |-> offsetTop,
                           defaultPrevented |-> startsWithHash(href),
                           scrolls |-> IF scrollsTo THEN <<targetPosition(offsetTop)>>
                                       ELSE <<>>]
          /\ lastScrollTo' = IF scrollsTo THEN <<targetPosition(offsetTop)>>
                             ELSE lastScrollTo
          /\ autoCloseTimers' = IF schedules THEN autoCloseTimers + 1
                                ELSE autoCloseTimers
    /\ escaped' = IF startsWithHash(href) /\ querySelectorThrows(href)
                  THEN escaped \cup {<<"navLinkClick", "SyntaxError">>}
                  ELSE escaped
    /\ SetNav(outsideClickListener(NavState, link = "sidebarLink"))
    /\ staleTimers' = IF isMenuOpen /\ ~isMenuOpen' THEN autoCloseTimers' ELSE staleTimers
    /\ UNCHANGED <<envVars, rippleVars, choiceVars, lazyVars, hoverVars,
                   videoVars, scrollVars, clockVars, resizeTimeVars,
                   loadTimeVars, mutEnv, storedTheme, appVars, revealVars,
                   loadVars, themeVars, animVars, resizeVars>>

\* The same click on a link whose href is '#' followed by an id.
AnchorLinkClick(link, targetExists, offsetTop) ==
    NavLinkClick(link, "#id", targetExists, offsetTop)

\* setTimeout(() => this.closeMenu(), 300) fires: the oldest pending one, as
\* all have the same delay.  It is stale when the menu was closed after it
\* was set.
AutoCloseTimerFire ==
    /\ lastEvent' = "autoCloseTimer"
    /\ autoCloseTimers > 0
    /\ autoCloseTimers' = autoCloseTimers - 1
    /\ SetNav(closeMenu(NavState))
    /\ staleTimers' = IF isMenuOpen THEN autoCloseTimers - 1
                      ELSE IF staleTimers > 0 THEN staleTimers - 1 ELSE 0
    /\ UNCHANGED <<envVars, extVars, mutEnv, storedTheme, appVars, escaped, revealVars, loadVars,
                   lastScrollTo,
                   themeVars, animVars, resizeVars>>

\* ============================ NavigationManager of the second variant
\* (src/script.js:1745-1869): openMenu and closeMenu use this.sidebar and
\* this.menuButton without a null check and without try/catch, so a result
\* carries `threw`: "none" or the element whose absence ended the call.

Educatum_openMenu(n) ==
    LET n1 == [n EXCEPT !.isMenuOpen = TRUE]
        n2 == [n1 EXCEPT !.sidebar.active = TRUE, !.bodyOverflow = "hidden"]
    IN IF "sidebar" \notin dom THEN Thrown(n1, "sidebar")
       ELSE IF "menuButton" \notin dom THEN Thrown(n2, "menuButton")
       ELSE Returned([n2 EXCEPT !.menuButton.transform = "rotate(90deg)"])

Educatum_closeMenu(n) ==
    LET n1 == [n EXCEPT !.isMenuOpen = FALSE]
        n2 == [n1 EXCEPT !.sidebar.active = FALSE, !.bodyOverflow = "auto"]
    IN IF "sidebar" \notin dom THEN Thrown(n1, "sidebar")
       ELSE IF "menuButton" \notin dom THEN Thrown(n2, "menuButton")
       ELSE Returned([n2 EXCEPT !.menuButton.transform = "rotate(0deg)"])

Educatum_toggleMenu(n) ==
    IF n.isMenuOpen THEN Educatum_closeMenu(n) ELSE Educatum_openMenu(n)

\* document 'click' listener of setupMobileMenu; inSidebar, inButton: the
\* target lies in #sidebar, in #menuButton.
Educatum_outsideClickListener(n, inSidebar, inButton) ==
    IF ~n.isMenuOpen THEN Returned(n)
    ELSE IF "sidebar" \notin dom THEN Thrown(n, "sidebar")
    ELSE IF inSidebar THEN Returned(n)
    ELSE IF "menuButton" \notin dom THEN Thrown(n, "menuButton")
    ELSE IF inButton THEN Returned(n)
    ELSE Educatum_closeMenu(n)

\* document 'keydown' listener of setupMobileMenu, key Escape.
Educatum_escapeListener(n) ==
    IF n.isMenuOpen THEN Educatum_closeMenu(n) ELSE Returned(n)

\* The exceptions recorded in `seen` plus one that left `method`.
EscapesAlso(seen, result, method) ==
    IF result.threw = "none" THEN seen ELSE seen \cup {<<method, result.threw>>}

\* A click on #menuButton: its listener, then the document listener.
EducatumMenuButtonClick ==
    /\ lastEvent' = "menuButtonClick"
    /\ appState # "start"
    /\ "navigationManager" \in components
    /\ "menuButton" \in dom
    /\ LET toggled == Educatum_toggleMenu(NavState)
           heard == Educatum_outsideClickListener(toggled.state, FALSE, TRUE)
       IN /\ SetNav(heard.state)
          /\ escaped' = EscapesAlso(Escapes(toggled, "toggleMenu"), heard,
                                    "outsideClickListener")
    /\ UNCHANGED <<envVars, extVars, mutEnv, storedTheme, appVars, revealVars, loadVars,
                   autoCloseTimers, staleTimers, lastScrollTo, themeVars, animVars, resizeVars>>

\* A click on #sidebarClose, which lies in #sidebar.
EducatumSidebarCloseClick ==
    /\ lastEvent' = "sidebarCloseClick"
    /\ appState # "start"
    /\ "navigationManager" \in components
    /\ "sidebarClose" \in dom
    /\ LET closed == Educatum_closeMenu(NavState)
           heard == Educatum_outsideClickListener(closed.state, "sidebar" \in dom, FALSE)
       IN /\ SetNav(heard.state)
          /\ escaped' = EscapesAlso(Escapes(closed, "closeMenu"), heard,
                                    "outsideClickListener")
    /\ UNCHANGED <<envVars, extVars, mutEnv, storedTheme, appVars, revealVars, loadVars,
                   autoCloseTimers, staleTimers, lastScrollTo, themeVars, animVars, resizeVars>>

\* A click on the page outside #sidebar and #menuButton, on no link.
EducatumOutsideClick ==
    /\ lastEvent' = "outsideClick"
    /\ appState # "start"
    /\ "navigationManager" \in components
    /\ LET heard == Educatum_outsideClickListener(NavState, FALSE, FALSE)
       IN /\ SetNav(heard.state)
          /\ escaped' = Escapes(heard, "outsideClickListener")
    /\ UNCHANGED <<envVars, extVars, mutEnv, storedTheme, appVars, revealVars, loadVars,
                   autoCloseTimers, staleTimers, lastScrollTo, themeVars, animVars, resizeVars>>

\* Key Escape: the listener of setupMobileMenu, then the one of
\* InteractionManager.setupAccessibility.
EducatumEscapeKey ==
    /\ lastEvent' = "escapeKey"
    /\ appState # "start"
    /\ "navigationManager" \in components
    /\ LET heard == Educatum_escapeListener(NavState)
       IN /\ SetNav(overlayEscapeListener(heard.state))
          /\ escaped' = Escapes(heard, "escapeListener")
    /\ UNCHANGED <<envVars, extVars, mutEnv, storedTheme, appVars, revealVars, loadVars,
                   autoCloseTimers, staleTimers, lastScrollTo, themeVars, animVars, resizeVars>>

\* ============================================= animation state as a record

\* The state the frame callbacks, the constructors and destroy() work on.
World == [ps |-> ps, container |-> container, rafQueue |-> rafQueue,
          nextRafId |-> nextRafId, cur |-> cur, ring |-> ring, dot |-> dot]

SetWorld(w) ==
    /\ ps' = w.ps
    /\ container' = w.container
    /\ rafQueue' = w.rafQueue
    /\ nextRafId' = w.nextRafId
    /\ cur' = w.cur
    /\ ring' = w.ring
    /\ dot' = w.dot

\* requestAnimationFrame(callback): owner is "particles" or "cursor", gen the
\* ParticleSystem instance the callback is bound to (0 for the cursor).
requestAnimationFrame(w, owner, gen) ==
    [w EXCEPT !.rafQueue = @ \cup {[id |-> w.nextRafId, owner |-> owner, gen |-> gen]},
              !.nextRafId = @ + 1]

\* cancelAnimationFrame(id): no effect when the callback has already run.
cancelAnimationFrame(w, id) ==
    [w EXCEPT !.rafQueue = {cb \in @ : cb.id # id}]

\* ========================================================== ParticleSystem

PosMax == 100 * Scale       \* 100%
VMax == Scale \div 2        \* 0.5 percentage points per frame
Seeds == 1..MaxSeed

\* The k-th draw of getRandomFloat(lo, hi) in the stream `seed`: a value of
\* [lo, hi).
getRandomFloat(seed, k, lo, hi) ==
    lo + (((seed * 7919) + (k * 104729) + (k * k * 3)) % (hi - lo))

\* C23 mutant: the particle count is not capped at 50.
particleCount_NoCap(width) == width \div WidthPerParticle

\* const particleCount = Math.min(50, Math.floor(window.innerWidth / 30))
particleCount(width) == Min(MaxParticles, width \div WidthPerParticle)

\* created, destroyCalls and initWidth record what happened to the instance:
\* the number of elements createParticles made, the number of destroy() calls
\* and window.innerWidth as init() read it (0: init() has not run).
NoPS == [gen |-> 0, particles |-> <<>>, isActive |-> FALSE,
         animationFrameId |-> 0, created |-> 0, destroyCalls |-> 0,
         initWidth |-> 0]

\* createParticles: draws per particle, in source order: x, y, size, duration,
\* animation-delay, vx, vy.
createParticles(w, seed) ==
    LET n == particleCount(innerWidth)
        mk(i) == LET k == 7 * (i - 1)
                     x == getRandomFloat(seed, k, 0, PosMax)
                     y == getRandomFloat(seed, k + 1, 0, PosMax)
                 IN [element |-> <<w.ps.gen, i>>,
                     x |-> x, y |-> y,
                     vx |-> getRandomFloat(seed, k + 5, -VMax, VMax),
                     vy |-> getRandomFloat(seed, k + 6, -VMax, VMax),
                     size |-> getRandomFloat(seed, k + 2, 2, 6),
                     left |-> x, top |-> y]
    IN [w EXCEPT !.ps.particles = [i \in 1..n |-> mk(i)],
                 !.ps.created = n,
                 !.container = @ \cup {<<w.ps.gen, i>> : i \in 1..n}]

\* C3 mutant: the boundary check never reverses the velocity.
advance_NoReflection(p) ==
    [p EXCEPT !.x = p.x + p.vx, !.y = p.y + p.vy,
              !.left = p.x + p.vx, !.top = p.y + p.vy]

\* C33 mutant: only the lower boundary reverses the velocity.
advance_ReflectsAtZeroOnly(p) ==
    LET x1 == p.x + p.vx
        y1 == p.y + p.vy
    IN [p EXCEPT !.x = x1, !.y = y1,
                 !.vx = IF x1 < 0 THEN -p.vx ELSE p.vx,
                 !.vy = IF y1 < 0 THEN -p.vy ELSE p.vy,
                 !.left = x1, !.top = y1]

\* Body of the forEach in animate(): one particle, one frame.
advance(p) ==
    LET x1 == p.x + p.vx
        y1 == p.y + p.vy
    IN [p EXCEPT !.x = x1, !.y = y1,
                 !.vx = IF x1 < 0 \/ x1 > PosMax THEN -p.vx ELSE p.vx,
                 !.vy = IF y1 < 0 \/ y1 > PosMax THEN -p.vy ELSE p.vy,
                 !.left = x1, !.top = y1]

animate(w) ==
    IF ~w.ps.isActive THEN w
    ELSE LET w1 == [w EXCEPT !.ps.particles =
                        [i \in DOMAIN w.ps.particles |-> advance(w.ps.particles[i])]]
             w2 == requestAnimationFrame(w1, "particles", w.ps.gen)
         IN [w2 EXCEPT !.ps.animationFrameId = w1.nextRafId]

\* ParticleSystem.init
ParticleSystem_init(w, seed) ==
    LET w0 == [w EXCEPT !.ps.initWidth = innerWidth]
    IN IF innerWidth > MobileWidth /\ ~prefersReducedMotion
       THEN LET w1 == createParticles(w0, seed)
                w2 == animate(w1)
            IN [w2 EXCEPT !.ps.isActive = TRUE]
       ELSE w0

\* new ParticleSystem(): the instance replaces this.components.particleSystem.
ParticleSystem_constructor(w, seed) ==
    LET w1 == [w EXCEPT !.ps = [NoPS EXCEPT !.gen = w.ps.gen + 1]]
    IN IF "heroParticles" \in dom THEN ParticleSystem_init(w1, seed) ELSE w1

\* C6 mutant: destroy() stops the loop but leaves the elements and the list.
ParticleSystem_destroy_KeepsElements(w) ==
    LET w1 == [w EXCEPT !.ps.isActive = FALSE, !.ps.destroyCalls = @ + 1]
    IN IF w.ps.animationFrameId # 0
       THEN cancelAnimationFrame(w1, w.ps.animationFrameId) ELSE w1

ParticleSystem_destroy(w) ==
    LET w1 == [w EXCEPT !.ps.isActive = FALSE, !.ps.destroyCalls = @ + 1]
        w2 == IF w.ps.animationFrameId # 0
              THEN cancelAnimationFrame(w1, w.ps.animationFrameId) ELSE w1
        own == {w.ps.particles[i].element : i \in DOMAIN w.ps.particles}
    IN [w2 EXCEPT !.container = @ \ own, !.ps.particles = <<>>]

\* ============================================================ CustomCursor

NoTransform == [set |-> FALSE, tx |-> 0, ty |-> 0, scale |-> 0]
NoCursor == [initialized |-> FALSE, mouseX |-> 0, mouseY |-> 0,
             cursorX |-> 0, cursorY |-> 0, dotX |-> 0, dotY |-> 0,
             localFrameId |-> 0, animationFrameId |-> 0, destroyCalls |-> 0]

\* c += (m - c) * percent / 100
lerp(c, m, percent) == c + (((m - c) * percent) \div 100)

\* The closure updateCursor of CustomCursor.init: it keeps the handle of the
\* frame it requests in the local variable animationFrameId.
updateCursor(w) ==
    LET c == w.cur
        cx == lerp(c.cursorX, c.mouseX, RingLerpPercent)
        cy == lerp(c.cursorY, c.mouseY, RingLerpPercent)
        dx == lerp(c.dotX, c.mouseX, DotLerpPercent)
        dy == lerp(c.dotY, c.mouseY, DotLerpPercent)
        w1 == [w EXCEPT !.cur.cursorX = cx, !.cur.cursorY = cy,
                        !.cur.dotX = dx, !.cur.dotY = dy,
                        !.ring.transform = [set |-> TRUE, tx |-> cx - RingOffset,
                                            ty |-> cy - RingOffset, scale |-> 0],
                        !.dot.transform = [set |-> TRUE, tx |-> dx - DotOffset,
                                           ty |-> dy - DotOffset, scale |-> 0]]
        w2 == requestAnimationFrame(w1, "cursor", 0)
    IN [w2 EXCEPT !.cur.localFrameId = w1.nextRafId]

\* CustomCursor.init: updateCursor() runs once, then the handle it left in the
\* local variable is copied to this.animationFrameId.
CustomCursor_init(w) ==
    LET w1 == updateCursor([w EXCEPT !.cur.initialized = TRUE])
    IN [w1 EXCEPT !.cur.animationFrameId = w1.cur.localFrameId]

CustomCursor_constructor(w) ==
    LET isVisible == ~(innerWidth <= MobileWidth)
    IN IF isVisible /\ "cursor" \in dom /\ "cursorDot" \in dom
       THEN CustomCursor_init(w) ELSE w

CustomCursor_destroy(w) ==
    LET w1 == [w EXCEPT !.cur.destroyCalls = @ + 1]
    IN IF w.cur.animationFrameId # 0
       THEN cancelAnimationFrame(w1, w.cur.animationFrameId) ELSE w1

\* ================================================== the animation frame

\* One callback of the frame: an animate() bound to a replaced instance finds
\* that instance inactive (destroy() ran on it) and returns.
runCallback(w, cb) ==
    IF cb.owner = "cursor" THEN updateCursor(w)
    ELSE IF cb.gen = w.ps.gen THEN animate(w)
    ELSE w

RECURSIVE runCallbacks(_, _)
runCallbacks(w, cbs) ==
    IF cbs = {} THEN w
    ELSE LET first == CHOOSE cb \in cbs : \A o \in cbs : cb.id <= o.id
         IN runCallbacks(runCallback(w, first), cbs \ {first})

\* The browser runs the callbacks requested before this frame, in request
\* order; what they request runs in the next frame.
AnimationFrame ==
    /\ lastEvent' = "animationFrame"
    /\ rafQueue # {}
    /\ nextRafId + Cardinality(rafQueue) <= MaxRafId + 1
    /\ SetWorld(runCallbacks([World EXCEPT !.rafQueue = {}], rafQueue))
    /\ UNCHANGED <<envVars, extVars, mutEnv, storedTheme, appVars, escaped, revealVars, loadVars,
                   navVars, themeVars,
                   resizeVars>>

\* ================================================== ScrollAnimationManager

\* The position of element e among the elements of S in document order: the
\* index forEach passes for it over querySelectorAll's NodeList.
Position(e, S) == Cardinality({x \in S : x < e})

\* C21 mutant: the fallback reveals the hero elements only.
fallbackReveal_HeroOnly ==
    /\ revealed' = revealed \cup hero

\* fallbackReveal(): every .reveal-animation element gets class 'revealed'.
fallbackReveal ==
    /\ revealed' = revealed \cup marked

\* new ScrollAnimationManager(): createObserver creates the observer, or
\* without IntersectionObserver reveals everything at once.
ScrollAnimationManager_constructor ==
    /\ observer' = hasIntersectionObserver
    /\ IF hasIntersectionObserver THEN revealed' = revealed ELSE fallbackReveal
    /\ UNCHANGED <<observed, reported, dataDelay, lastTargets, revealTimers>>

\* C20 mutant: the query is '.reveal-animation', revealed elements included.
observeElements_AllMarked ==
    IF ~observer
    THEN UNCHANGED <<observed, dataDelay, lastTargets>>
    ELSE /\ lastTargets' = marked
         /\ dataDelay' = [e \in marked |-> Position(e, marked) * DelayStep]
         /\ observed' = observed \cup marked

\* observeElements(): the elements matching '.reveal-animation:not(.revealed)'
\* get their index * 100 as data-delay and are observed; observe() of a
\* target that is already observed changes nothing.
observeElements ==
    IF ~observer
    THEN UNCHANGED <<observed, dataDelay, lastTargets>>
    ELSE LET elements == marked \ revealed
         IN /\ lastTargets' = elements
            /\ dataDelay' = [e \in marked |->
                                IF e \in elements
                                THEN Position(e, elements) * DelayStep
                                ELSE dataDelay[e]]
            /\ observed' = observed \cup elements

\* observeElements() called through window.scrollAnimationManager, which
\* initializeComponents sets after the last constructor.
windowScrollAnimationManager == components = {Order[i] : i \in 1..Len(Order)}

ObserveElementsCall ==
    /\ lastEvent' = "observeElements"
    /\ appState # "start"
    /\ windowScrollAnimationManager
    /\ observeElements
    /\ UNCHANGED <<envVars, extVars, mutEnv, storedTheme, appVars, escaped, loadVars, navVars,
                   themeVars, animVars, resizeVars, intersecting, observer, reported,
                   revealed, revealTimers, heroTimers>>

\* The page scrolls: element e enters or leaves the viewport.
IntersectionChange(e) ==
    /\ lastEvent' = "scroll"
    /\ e \in marked
    /\ intersecting' = IF e \in intersecting THEN intersecting \ {e}
                       ELSE intersecting \cup {e}
    /\ UNCHANGED <<envVars, extVars, mutEnv, storedTheme, appVars, escaped, loadVars, navVars,
                   themeVars, animVars, resizeVars, observer, observed, reported,
                   revealed, dataDelay, lastTargets, revealTimers, heroTimers>>

IsIntersecting(e) == IF e \in intersecting THEN "yes" ELSE "no"

\* The entries the observer has to deliver: the targets whose intersection
\* state differs from the one delivered last (a new target has none yet).
Entries == {e \in observed : reported[e] # IsIntersecting(e)}

\* C19 mutant: the callback ignores data-delay.
callbackDelay_Zero(e) == 0

\* const delay = element.dataset.delay || 0
callbackDelay(e) == IF dataDelay[e] = NoDelay THEN 0 ELSE dataDelay[e]

\* The IntersectionObserver callback with the pending entries: a timer per
\* intersecting entry.  Timers of the same element and delay are one record:
\* their callback is idempotent.
ObserverCallback ==
    /\ lastEvent' = "observerCallback"
    /\ observer
    /\ Entries # {}
    /\ reported' = [e \in marked |-> IF e \in Entries THEN IsIntersecting(e)
                                     ELSE reported[e]]
    /\ revealTimers' = revealTimers \cup
           {[el |-> e, delay |-> callbackDelay(e)] : e \in Entries \cap intersecting}
    /\ UNCHANGED <<envVars, extVars, mutEnv, storedTheme, appVars, escaped, loadVars, navVars,
                   themeVars, animVars, resizeVars, intersecting, observer, observed,
                   revealed, dataDelay, lastTargets, heroTimers>>

\* C17 mutant: the timer callback toggles the class.
revealElement_Toggle(e) ==
    IF e \in revealed THEN revealed \ {e} ELSE revealed \cup {e}

\* element.classList.add('revealed')
revealElement(e) == revealed \cup {e}

\* The timer of the observer callback fires: reveal and unobserve.
RevealTimerFire(t) ==
    /\ lastEvent' = "revealTimer"
    /\ t \in revealTimers
    /\ revealTimers' = revealTimers \ {t}
    /\ revealed' = revealElement(t.el)
    /\ IF observer
       THEN /\ observed' = observed \ {t.el}
            /\ reported' = [reported EXCEPT ![t.el] = "none"]
       ELSE UNCHANGED <<observed, reported>>
    /\ UNCHANGED <<envVars, extVars, mutEnv, storedTheme, appVars, escaped, loadVars, navVars,
                   themeVars, animVars, resizeVars, intersecting, observer, dataDelay,
                   lastTargets, heroTimers>>

\* animateHeroElements(): a timer of index * 200 ms per element of
\* '.hero .reveal-animation'.
animateHeroElements ==
    heroTimers' = heroTimers \cup
        {[el |-> e, delay |-> Position(e, hero) * HeroDelayStep] : e \in hero}

\* A timer of animateHeroElements fires.
HeroTimerFire(t) ==
    /\ lastEvent' = "heroTimer"
    /\ t \in heroTimers
    /\ heroTimers' = heroTimers \ {t}
    /\ revealed' = revealElement(t.el)
    /\ UNCHANGED <<envVars, extVars, mutEnv, storedTheme, appVars, escaped, loadVars, navVars,
                   themeVars, animVars, resizeVars, intersecting, observerVars, dataDelay,
                   lastTargets, revealTimers>>

\* destroy(): this.observer.disconnect() drops every observation target.
ScrollAnimationManager_destroy ==
    IF "scrollAnimationManager" \in components /\ observer
    THEN /\ observed' = {}
         /\ reported' = [e \in marked |-> "none"]
    ELSE UNCHANGED <<observed, reported>>

\* ============================================================ VideoManager

\* A src attribute is a sequence over these pieces of text; "v" stands for any
\* character outside the others.  The empty sequence is an empty or missing
\* attribute: both are falsy in `src && ...`.
Chars == {"v", "&", "autoplay=", "1"}
Urls(n) == UNION {[1..k -> Chars] : k \in 0..n}

\* The src attributes of the lazy-loading specification: none, one without
\* and two with 'autoplay=1'.
LazyUrls == {<<>>, <<"v">>, <<"v", "&", "autoplay=", "1">>}

AutoplayParam == <<"autoplay=", "1">>           \* 'autoplay=1'
AutoplaySuffix == <<"&", "autoplay=", "1">>     \* '&autoplay=1'

\* The positions at which pat occurs in s.
Occurrences(s, pat) ==
    {i \in 1..(Len(s) - Len(pat) + 1) : SubSeq(s, i, i + Len(pat) - 1) = pat}

\* String.prototype.includes
includes(s, pat) == Occurrences(s, pat) # {}

\* String.prototype.replace with a string pattern: the first occurrence only.
replace(s, pat, by) ==
    IF ~includes(s, pat) THEN s
    ELSE LET i == CHOOSE k \in Occurrences(s, pat) : \A o \in Occurrences(s, pat) : k <= o
         IN SubSeq(s, 1, i - 1) \o by \o SubSeq(s, i + Len(pat), Len(s))

\* C26 mutant: playVideo appends the parameter without looking for it.
playVideo_AlwaysAppends(src) == IF src # <<>> THEN src \o AutoplaySuffix ELSE src

\* playVideo(iframe): the new value of the iframe's src.
playVideo(src) ==
    IF src # <<>> /\ ~includes(src, AutoplayParam) THEN src \o AutoplaySuffix ELSE src

\* pauseAllVideos(): the new src of every card's iframe.
pauseAllVideos(srcs) ==
    [c \in DOMAIN srcs |->
        IF srcs[c] # <<>> /\ includes(srcs[c], AutoplayParam)
        THEN replace(srcs[c], AutoplaySuffix, <<>>)
        ELSE srcs[c]]

\* A click on the .video-overlay of card c.
OverlayClick(c) ==
    /\ lastEvent' = "overlayClick"
    /\ "videoManager" \in components
    /\ c \in videoCards
    /\ playCalls[c] < MaxPlayCalls
    /\ videoSrc' = [videoSrc EXCEPT ![c] = playVideo(@)]
    /\ playCalls' = [playCalls EXCEPT ![c] = @ + 1]
    /\ UNCHANGED <<envVars, rippleVars, choiceVars, lazyVars, hoverVars,
                   clickVars, scrollVars, clockVars, resizeTimeVars,
                   loadTimeVars, videoCards, hoveredCard, mutEnv, storedTheme,
                   appVars, escaped, loadVars, navVars, themeVars, animVars,
                   resizeVars, revealVars>>

\* 'mouseenter' on card c: the listener's body is a comment.
CardMouseEnter(c) ==
    /\ lastEvent' = "cardMouseEnter"
    /\ "videoManager" \in components
    /\ c \in videoCards
    /\ hoveredCard' = c
    /\ playCalls' = [k \in videoCards |-> 0]
    /\ UNCHANGED <<envVars, rippleVars, choiceVars, lazyVars, hoverVars,
                   clickVars, scrollVars, clockVars, resizeTimeVars,
                   loadTimeVars, videoCards, videoSrc, mutEnv, storedTheme,
                   appVars, escaped, loadVars, navVars, themeVars, animVars,
                   resizeVars, revealVars>>

\* 'mouseenter' on card c in the second variant: this.pauseAllVideos().
Educatum_CardMouseEnter(c) ==
    /\ lastEvent' = "cardMouseEnter"
    /\ "videoManager" \in components
    /\ c \in videoCards
    /\ hoveredCard' = c
    /\ playCalls' = [k \in videoCards |-> 0]
    /\ videoSrc' = pauseAllVideos(videoSrc)
    /\ UNCHANGED <<envVars, rippleVars, choiceVars, lazyVars, hoverVars,
                   clickVars, scrollVars, clockVars, resizeTimeVars,
                   loadTimeVars, videoCards, mutEnv, storedTheme, appVars,
                   escaped, loadVars, navVars, themeVars, animVars, resizeVars,
                   revealVars>>

\* ------------------------------------------- VideoManager.setupLazyLoading
\* Each iframe gets an IntersectionObserver of its own.  The browser compares
\* the intersection state of an observed target with the one it computed last
\* on every rendering update and queues an entry when they differ (the first
\* update after observe() always queues one); a task then calls the callback
\* with all the entries queued since the previous call, so one call can
\* carry several entries for the same iframe.

\* observed: the iframe is an observation target; reported: the isIntersecting
\* of the entry queued last; queue: the isIntersecting of the entries waiting
\* for the callback; hints: the <link rel=preconnect> elements the callback of
\* this card has appended to document.head.
NoLazy == [observed |-> FALSE, reported |-> "none", queue |-> <<>>, hints |-> 0]

\* setupLazyLoading(iframe): whether observer.observe(iframe) is reached.
setupLazyLoading(src) ==
    IF src # <<>> /\ ~includes(src, AutoplayParam) /\ hasIntersectionObserver
    THEN [NoLazy EXCEPT !.observed = TRUE]
    ELSE NoLazy

\* The body of entries.forEach for one entry.
lazyEntry(l, isIntersecting) ==
    IF isIntersecting
    THEN [l EXCEPT !.hints = @ + 1, !.observed = FALSE, !.reported = "none"]
    ELSE l

\* The observer callback: entries.forEach over the entries of one call.
RECURSIVE lazyCallback(_, _)
lazyCallback(l, entries) ==
    IF entries = <<>> THEN l
    ELSE lazyCallback(lazyEntry(l, Head(entries)), Tail(entries))

IsCardIntersecting(c) == IF c \in cardIntersecting THEN "yes" ELSE "no"

\* The page scrolls: the iframe of card c enters or leaves the viewport.
CardIntersectionChange(c) ==
    /\ lastEvent' = "cardScroll"
    /\ c \in videoCards
    /\ cardIntersecting' = IF c \in cardIntersecting THEN cardIntersecting \ {c}
                           ELSE cardIntersecting \cup {c}
    /\ UNCHANGED <<envVars, rippleVars, choiceVars, videoVars, scrollVars,
                   clockVars, resizeTimeVars, loadTimeVars, clickVars,
                   hoverVars, lazy, mutEnv, storedTheme, appVars, escaped,
                   loadVars, navVars, themeVars, animVars, resizeVars,
                   revealVars>>

\* The cards for which a rendering update queues an entry.
ChangedCards == {c \in videoCards :
                    lazy[c].observed /\ lazy[c].reported # IsCardIntersecting(c)}

\* A rendering update of the browser: an entry is queued for every observed
\* iframe whose intersection state has changed.
UpdateIntersectionObservations ==
    /\ lastEvent' = "renderingUpdate"
    /\ ChangedCards # {}
    /\ \A c \in ChangedCards : Len(lazy[c].queue) < MaxQueuedEntries
    /\ lazy' = [c \in videoCards |->
                  IF c \in ChangedCards
                  THEN [lazy[c] EXCEPT !.reported = IsCardIntersecting(c),
                                       !.queue = Append(@, c \in cardIntersecting)]
                  ELSE lazy[c]]
    /\ UNCHANGED <<envVars, rippleVars, choiceVars, videoVars, scrollVars,
                   clockVars, resizeTimeVars, loadTimeVars, clickVars,
                   hoverVars, cardIntersecting, mutEnv, storedTheme, appVars,
                   escaped, loadVars, navVars, themeVars, animVars, resizeVars,
                   revealVars>>

\* The browser calls the callback of card c's observer with the queued
\* entries.
LazyObserverCallback(c) ==
    /\ lastEvent' = "lazyObserverCallback"
    /\ c \in videoCards
    /\ lazy[c].queue # <<>>
    /\ lazy' = [lazy EXCEPT ![c] = lazyCallback([@ EXCEPT !.queue = <<>>], lazy[c].queue)]
    /\ UNCHANGED <<envVars, rippleVars, choiceVars, videoVars, scrollVars,
                   clockVars, resizeTimeVars, loadTimeVars, clickVars,
                   hoverVars, cardIntersecting, mutEnv, storedTheme, appVars,
                   escaped, loadVars, navVars, themeVars, animVars, resizeVars,
                   revealVars>>

\* ========================================== resize, visibility, unload

Widths == {768, 1200}

\* Whether a timeout due at `due` may fire: never before it is due, at any time
\* after.  A specification that does not follow the clock lets it fire at any
\* time.
Due(due) == ~timed \/ now >= due

\* Date.now(), as far as the specification follows the clock.
Clock == IF timed THEN now ELSE 0

\* The time at which a timeout set now with this delay is due.
DueAfter(delay) == IF timed THEN now + delay ELSE 0

\* Time passes after the script has started; the clock is followed until
\* `horizon`.
Tick(d, horizon) ==
    /\ lastEvent' = "tick"
    /\ timed
    /\ appState # "start"
    /\ now + d <= horizon
    /\ now' = now + d
    /\ UNCHANGED <<envVars, rippleVars, choiceVars, lazyVars, hoverVars,
                   clickVars, videoVars, scrollVars, timed, resizeTimeVars,
                   loadTimeVars, mutEnv, storedTheme, appVars, escaped,
                   loadVars, navVars, themeVars, animVars, resizeVars,
                   revealVars>>

\* ------------------------------------------- the throttled scroll handler

\* The handler setupScrollEffects passes to throttle: the header's background
\* and shadow follow the scroll offset and the theme.
handleScroll ==
    /\ IF "nav" \in dom
       THEN /\ navStyle' =
                  [background |-> <<IF dataTheme = "dark" THEN "dark" ELSE "light",
                                    IF pageYOffset' > ScrolledOffset THEN 98 ELSE 85>>,
                   boxShadow |-> IF pageYOffset' > ScrolledOffset
                                 THEN "0 5px 25px rgba(0, 0, 0, 0.1)" ELSE "none"]
            /\ scrollPosition' = pageYOffset'
       ELSE UNCHANGED <<navStyle, scrollPosition>>
    /\ execCount' = IF execCount < 2 THEN execCount + 1 ELSE 2
    /\ prevExecAt' = lastExecAt
    /\ lastExecAt' = now

\* C38 mutant: the else branch of throttle sets no timeout, so an event that
\* comes within the delay is dropped.
throttleTrailing_Dropped == throttleTimer

\* The else branch of throttle: clearTimeout(timeoutId), then setTimeout: one
\* timeout is pending afterwards.
throttleTrailing == 1

\* A 'scroll' event: the function throttle returned.  It runs the handler when
\* more than delay has passed since lastExecTime, and leaves a pending
\* timeout alone then; otherwise it replaces the timeout by one for the rest
\* of the delay.
Scroll(y) ==
    /\ lastEvent' = "scroll"
    /\ timed
    /\ "navigationManager" \in components
    /\ pageYOffset' = y
    /\ IF now - lastExecTime > ThrottleDelay
       THEN /\ handleScroll
            /\ lastExecTime' = now
            /\ UNCHANGED <<throttleTimer, throttleDue>>
       ELSE /\ throttleTimer' = throttleTrailing
            /\ throttleDue' = now + (ThrottleDelay - (now - lastExecTime))
            /\ UNCHANGED <<lastExecTime, scrollPosition, navStyle, execCount,
                           prevExecAt, lastExecAt>>
    /\ UNCHANGED <<envVars, rippleVars, choiceVars, lazyVars, hoverVars,
                   clickVars, videoVars, clockVars, resizeTimeVars,
                   loadTimeVars, mutEnv, storedTheme, appVars, escaped,
                   loadVars, navVars, themeVars, animVars, resizeVars,
                   revealVars>>

\* The timeout of throttle fires: the handler runs, lastExecTime = Date.now().
ThrottleTimerFire ==
    /\ lastEvent' = "throttleTimer"
    /\ throttleTimer = 1
    /\ Due(throttleDue)
    /\ throttleTimer' = 0
    /\ pageYOffset' = pageYOffset
    /\ handleScroll
    /\ lastExecTime' = now
    /\ UNCHANGED <<envVars, rippleVars, choiceVars, lazyVars, hoverVars,
                   clickVars, videoVars, throttleDue, clockVars,
                   resizeTimeVars, loadTimeVars, mutEnv, storedTheme, appVars,
                   escaped, loadVars, navVars, themeVars, animVars, resizeVars,
                   revealVars>>

\* Time passes until the pending timeout of throttle is due.
TickToThrottleDue ==
    /\ lastEvent' = "tick"
    /\ timed
    /\ throttleTimer = 1
    /\ now < throttleDue
    /\ now' = throttleDue
    /\ UNCHANGED <<envVars, rippleVars, choiceVars, lazyVars, hoverVars, clickVars, videoVars,
                   scrollVars, timed, resizeTimeVars, loadTimeVars, mutEnv, storedTheme,
                   appVars, escaped, loadVars, navVars, themeVars, animVars, resizeVars,
                   revealVars>>

\* C24 mutant: the debounced function keeps a pending timeout instead of
\* clearing it and setting a new one.
debounce_KeepsPending == IF resizeTimer = 1 THEN resizeDue ELSE DueAfter(DebounceDelay)

\* debounce: clearTimeout(timeoutId); timeoutId = setTimeout(..., delay).  The
\* time at which the one pending timeout is due after a call.
debounce == DueAfter(DebounceDelay)

\* 'resize' listener: handleResize is debounce(rebuild, 16), so the pending
\* timeout is cleared and set again.
Resize(width) ==
    /\ lastEvent' = "resize"
    /\ appState # "start"
    /\ innerWidth' = width
    /\ resizeTimer' = 1
    /\ resizeDue' = debounce
    /\ lastResizeAt' = Clock
    /\ UNCHANGED <<envVars, rippleVars, choiceVars, lazyVars, hoverVars,
                   clickVars, videoVars, scrollVars, clockVars, loadTimeVars,
                   orientationDue, orientationFired, systemDark,
                   documentHidden, storedTheme, appVars, escaped, revealVars,
                   loadVars, navVars, themeVars, animVars, orientationTimers>>

\* The debounce timeout fires: destroy the particle system and build a new one.
ResizeTimerFire(seed) ==
    /\ lastEvent' = "resizeTimer"
    /\ resizeTimer = 1
    /\ Due(resizeDue)
    /\ resizeTimer' = 0
    /\ orientationFired' = {}
    /\ IF "particleSystem" \in components
       THEN /\ ps.gen \in ReplacedGens
            /\ SetWorld(ParticleSystem_constructor(ParticleSystem_destroy(World), seed))
       ELSE UNCHANGED animVars
    /\ UNCHANGED <<envVars, rippleVars, choiceVars, lazyVars, hoverVars,
                   clickVars, videoVars, scrollVars, clockVars, loadTimeVars,
                   resizeDue, orientationDue, lastResizeAt, mutEnv,
                   storedTheme, appVars, escaped, revealVars, loadVars,
                   navVars, themeVars, orientationTimers>>

\* 'orientationchange' listener: setTimeout(handleResize, 100).  When the
\* clock is followed, no two orientation changes fall into the same ms.
OrientationChange ==
    /\ lastEvent' = "orientationChange"
    /\ appState # "start"
    /\ orientationTimers < MaxOrientationTimers
    /\ orientationTimers' = orientationTimers + 1
    /\ IF timed
       THEN /\ now + OrientationDelay \notin orientationDue
            /\ orientationDue' = orientationDue \cup {now + OrientationDelay}
       ELSE UNCHANGED orientationDue
    /\ UNCHANGED <<envVars, rippleVars, choiceVars, lazyVars, hoverVars,
                   clickVars, videoVars, scrollVars, clockVars, loadTimeVars,
                   resizeDue, lastResizeAt, orientationFired, mutEnv,
                   storedTheme, appVars, escaped, revealVars, loadVars,
                   navVars, themeVars, animVars, resizeTimer>>

\* A timeout of the 'orientationchange' listener fires: handleResize().
OrientationTimerFire ==
    /\ lastEvent' = "orientationTimer"
    /\ orientationTimers > 0
    /\ orientationTimers' = orientationTimers - 1
    /\ resizeTimer' = 1
    /\ resizeDue' = debounce
    /\ IF timed
       THEN \E due \in orientationDue :
               /\ now >= due
               /\ orientationDue' = orientationDue \ {due}
               /\ orientationFired' = orientationFired \cup {due - OrientationDelay}
       ELSE UNCHANGED <<orientationDue, orientationFired>>
    /\ UNCHANGED <<envVars, rippleVars, choiceVars, lazyVars, hoverVars,
                   clickVars, videoVars, scrollVars, clockVars, loadTimeVars,
                   lastResizeAt, mutEnv, storedTheme, appVars, escaped,
                   revealVars, loadVars, navVars, themeVars, animVars>>

\* C25 mutant: pauseAnimations() leaves the field active.
pauseAnimations_NoOp(w) == w

pauseAnimations(w) ==
    IF "particleSystem" \in components THEN [w EXCEPT !.ps.isActive = FALSE] ELSE w

resumeAnimations(w) ==
    IF "particleSystem" \in components
    THEN animate([w EXCEPT !.ps.isActive = TRUE]) ELSE w

\* 'visibilitychange' with document.hidden true.
VisibilityHidden ==
    /\ lastEvent' = "visibilityHidden"
    /\ appState # "start"
    /\ ~documentHidden
    /\ documentHidden' = TRUE
    /\ SetWorld(pauseAnimations(World))
    /\ UNCHANGED <<envVars, extVars, systemDark, innerWidth, storedTheme, appVars, escaped,
                   revealVars,
                   loadVars, navVars, themeVars, resizeVars>>

\* 'visibilitychange' with document.hidden false.
VisibilityVisible ==
    /\ lastEvent' = "visibilityVisible"
    /\ appState # "start"
    /\ documentHidden
    /\ nextRafId <= MaxRafId
    /\ documentHidden' = FALSE
    /\ SetWorld(resumeAnimations(World))
    /\ UNCHANGED <<envVars, extVars, systemDark, innerWidth, storedTheme, appVars, escaped,
                   revealVars,
                   loadVars, navVars, themeVars, resizeVars>>

\* cleanup(): destroy() of every component that has one, in construction order
\* (ScrollAnimationManager, CustomCursor, ParticleSystem).
cleanup(w) ==
    LET w1 == IF "customCursor" \in components THEN CustomCursor_destroy(w) ELSE w
    IN IF "particleSystem" \in components THEN ParticleSystem_destroy(w1) ELSE w1

\* 'beforeunload' listener.
BeforeUnload ==
    /\ lastEvent' = "beforeUnload"
    /\ appState # "start"
    /\ ps.destroyCalls < MaxDestroyCalls
    /\ cur.destroyCalls < MaxDestroyCalls
    /\ SetWorld(cleanup(World))
    /\ ScrollAnimationManager_destroy
    /\ UNCHANGED <<envVars, extVars, mutEnv, storedTheme, appVars, escaped, loadVars, navVars,
                   themeVars, resizeVars, intersecting, observer, revealed, dataDelay,
                   lastTargets, revealTimers, heroTimers>>

\* ====================================================== InteractionManager

\* createRipple: a span is appended to the card; the timeout that removes it
\* is set at the same time.  Ripples are listed oldest first.
createRipple(rs) == Append(rs, Clock)

\* The two 'click' listeners setupCategoryCards puts on the card, in
\* registration order, for a click event that reached the card.  The first
\* one calls link.click() unless the target is inside the .category-link;
\* that click is dispatched at once and bubbles to the card, whose listeners
\* run for it before the first listener returns.  forwarded: the event is the
\* one link.click() made.
RECURSIVE cardClickListeners(_, _)
cardClickListeners(rs, onLink) ==
    LET rs1 == IF ~onLink /\ "categoryLink" \in dom
               THEN cardClickListeners(rs, TRUE) ELSE rs
    IN createRipple(rs1)

\* The user clicks the category card, on its link or beside it.
CategoryCardClick(onLink) ==
    /\ lastEvent' = "categoryCardClick"
    /\ "interactionManager" \in components
    /\ "categoryCard" \in dom
    /\ onLink => "categoryLink" \in dom
    /\ Len(cardClickListeners(ripples, onLink)) <= MaxRipples
    /\ ripples' = cardClickListeners(ripples, onLink)
    /\ UNCHANGED <<envVars, videoVars, scrollVars, clockVars, resizeTimeVars, loadTimeVars,
                   clickVars, hoverVars, lazyVars, choiceVars, mutEnv, storedTheme,
                   appVars, escaped, loadVars, navVars, themeVars, animVars, resizeVars,
                   revealVars>>

\* The timeout of createRipple fires: ripple.remove().  The timeouts have the
\* same delay, so the one of the oldest ripple is the first.
RippleTimerFire ==
    /\ lastEvent' = "rippleTimer"
    /\ ripples # <<>>
    /\ Due(Head(ripples) + RippleDelay)
    /\ ripples' = Tail(ripples)
    /\ UNCHANGED <<envVars, videoVars, scrollVars, clockVars, resizeTimeVars, loadTimeVars,
                   clickVars, hoverVars, lazyVars, choiceVars, mutEnv, storedTheme,
                   appVars, escaped, loadVars, navVars, themeVars, animVars, resizeVars,
                   revealVars>>

\* ================================================== CustomCursor listeners

MousePoints == {<<0, 0>>, <<40, 20>>, <<100, 60>>}

\* document 'mousemove' listener.
MouseMove(p) ==
    /\ lastEvent' = "mouseMove"
    /\ cur.initialized
    /\ cur' = [cur EXCEPT !.mouseX = p[1], !.mouseY = p[2]]
    /\ UNCHANGED <<envVars, extVars, mutEnv, storedTheme, appVars, escaped, revealVars, loadVars,
                   navVars,
                   themeVars, resizeVars, ps, container, rafQueue, nextRafId,
                   ring, dot>>

\* 'mouseenter' listener of an interactive element:
\* transform += ' scale(1.5)', opacity '0.6'.  Interactive elements nest (a
\* link in a card), so the pointer can be over MaxScaleSuffix of them.
MouseEnterInteractive ==
    /\ lastEvent' = "mouseEnter"
    /\ cur.initialized
    /\ ring.transform.scale < MaxScaleSuffix
    /\ hoverDepth < MaxScaleSuffix
    /\ ring' = [ring EXCEPT !.transform.scale = @ + 1, !.opacity = "0.6"]
    /\ hoverDepth' = hoverDepth + 1
    /\ preHover' = IF hoverDepth = 0
                   THEN [scale |-> ring.transform.scale, opacity |-> ring.opacity]
                   ELSE preHover
    /\ UNCHANGED <<envVars, rippleVars, choiceVars, lazyVars, videoVars,
                   scrollVars, clockVars, resizeTimeVars, loadTimeVars,
                   clickVars, mutEnv, storedTheme, appVars, escaped,
                   revealVars, loadVars, navVars, themeVars, resizeVars, ps,
                   container, rafQueue, nextRafId, cur, dot>>

\* 'mouseleave' listener: the first ' scale(1.5)' is removed, opacity '0.8'.
\* The pointer may have been over the element since before the listeners
\* were installed.
MouseLeaveInteractive ==
    /\ lastEvent' = "mouseLeave"
    /\ cur.initialized
    /\ ring' = [ring EXCEPT !.transform.scale = IF @ > 0 THEN @ - 1 ELSE 0,
                            !.opacity = "0.8"]
    /\ hoverDepth' = IF hoverDepth > 0 THEN hoverDepth - 1 ELSE 0
    /\ preHover' = preHover
    /\ UNCHANGED <<envVars, rippleVars, choiceVars, lazyVars, videoVars,
                   scrollVars, clockVars, resizeTimeVars, loadTimeVars,
                   clickVars, mutEnv, storedTheme, appVars, escaped,
                   revealVars, loadVars, navVars, themeVars, resizeVars, ps,
                   container, rafQueue, nextRafId, cur, dot>>

\* ========================================================== LoadingManager

\* hide() from the end of the wait on.
hideTail(at) ==
    /\ loadingScreen' = IF "loadingScreen" \in dom
                        THEN [loadingScreen EXCEPT !.hidden = TRUE] ELSE loadingScreen
    /\ bodyOverflow' = IF "loadingScreen" \in dom THEN "auto" ELSE bodyOverflow
    /\ removeTimer' = IF "loadingScreen" \in dom THEN 1 ELSE removeTimer
    /\ removeDue' = IF "loadingScreen" \in dom /\ timed THEN at + RemoveDelay ELSE removeDue
    /\ hiddenAt' = IF "loadingScreen" \in dom /\ timed THEN at ELSE hiddenAt
    /\ isLoading' = FALSE
    /\ loadCompleteTimer' = 1

\* The setTimeout(resolve, remainingTime) hide() awaits fires; init() returns.
HideTimerFire ==
    /\ lastEvent' = "hideTimer"
    /\ hideTimer = 1
    /\ Due(hideDue)
    /\ hideTimer' = 0
    /\ hideTail(now)
    /\ appState' = "ready"
    /\ UNCHANGED <<envVars, rippleVars, choiceVars, lazyVars, hoverVars,
                   clickVars, videoVars, scrollVars, clockVars, resizeTimeVars,
                   startTime, hideDue, mutEnv, storedTheme, components,
                   minimalWired, escaped, revealVars, menuVars,
                   autoCloseTimers, staleTimers, lastScrollTo, themeVars,
                   animVars, resizeVars>>

\* The 500 ms timeout of hide() removes the overlay from the document.
RemoveTimerFire ==
    /\ lastEvent' = "removeTimer"
    /\ removeTimer = 1
    /\ Due(removeDue)
    /\ removeTimer' = 0
    /\ loadingScreen' = [loadingScreen EXCEPT !.inDom = FALSE]
    /\ UNCHANGED <<envVars, extVars, mutEnv, storedTheme, appVars, escaped, revealVars,
                   isLoading, hideTimer,
                   loadCompleteTimer, navVars, themeVars, animVars, resizeVars>>

\* The 200 ms timeout of triggerLoadComplete fires.
LoadCompleteTimerFire ==
    /\ lastEvent' = "loadCompleteTimer"
    /\ loadCompleteTimer = 1
    /\ loadCompleteTimer' = 0
    /\ animateHeroElements
    /\ IF windowScrollAnimationManager
       THEN observeElements
       ELSE UNCHANGED <<observed, dataDelay, lastTargets>>
    /\ UNCHANGED <<envVars, extVars, mutEnv, storedTheme, appVars, escaped, isLoading, hideTimer,
                   removeTimer, loadingScreen, navVars, themeVars, animVars,
                   resizeVars, intersecting, observer, reported, revealed,
                   revealTimers>>

\* ============================================================ EducationApp

\* The position at which construction stops: an injected fault at throwAt, or
\* CustomCursor's unguarded window.matchMedia(...) when matchMedia is missing.
throwPosition(throwAt) ==
    Min(throwAt, IF hasMatchMedia THEN NoThrow ELSE CustomCursorPosition)

\* initializeComponents: the components constructed before the throw.
initializeComponents(throwAt) ==
    {Order[i] : i \in 1..(throwPosition(throwAt) - 1)}

\* The times init() may take from new LoadingManager() to the call of hide().
StartupTimes == {0, 600, MinimumLoadTime, MinimumLoadTime + 200}

\* C28 mutant: hide() does not wait for the rest of minimumLoadTime.
remainingTime_Zero(elapsedTime) == 0

\* hide(): Math.max(0, this.minimumLoadTime - elapsedTime)
remainingTime(elapsedTime) ==
    IF MinimumLoadTime - elapsedTime > 0 THEN MinimumLoadTime - elapsedTime ELSE 0

\* Whether an exception thrown by a constructor leaves initializeComponents
\* and reaches the catch of init(): its own try/catch logs and swallows it.
exceptionReachesInit(throwAt) == FALSE

\* init() up to the point where it awaits the timer of hide() (or to its end):
\* initializeComponents, setupGlobalListeners, the synchronous part of hide().
\* took: the time between new LoadingManager() and the call of hide().
AppInitTaking(throwAt, took, seed) ==
    /\ lastEvent' = "init"
    /\ appState = "start"
    /\ LET built == initializeComponents(throwAt)
           w1 == IF "customCursor" \in built THEN CustomCursor_constructor(World)
                 ELSE World
           w2 == IF "particleSystem" \in built THEN ParticleSystem_constructor(w1, seed)
                 ELSE w1
       IN /\ components' = built
          /\ now' = IF timed THEN now + took ELSE now
          /\ startTime' = IF "loadingManager" \in built THEN Clock ELSE startTime
          /\ IF "themeManager" \in built
             THEN SetTheme(ThemeManager_constructor(ThemeState))
             ELSE UNCHANGED <<themeVars, storedTheme>>
          /\ SetWorld(w2)
          /\ lazy' = IF "videoManager" \in built
                     THEN [c \in videoCards |-> setupLazyLoading(videoSrc[c])]
                     ELSE lazy
          /\ IF "scrollAnimationManager" \in built
             THEN ScrollAnimationManager_constructor
             ELSE UNCHANGED <<observer, observed, reported, revealed, dataDelay,
                              lastTargets, revealTimers>>
          /\ IF exceptionReachesInit(throwAt)
             THEN \* handleInitError and initMinimalFunctionality
                  /\ loadingScreen' = IF "loadingScreen" \in dom
                                      THEN [loadingScreen EXCEPT !.displayNone = TRUE]
                                      ELSE loadingScreen
                  /\ bodyOverflow' = "auto"
                  /\ minimalWired' = TRUE
                  /\ appState' = "ready"
                  /\ UNCHANGED <<isLoading, hideTimer, removeTimer, loadCompleteTimer,
                                 hideDue, removeDue, hiddenAt>>
             ELSE /\ minimalWired' = minimalWired
                  /\ IF "loadingManager" \in built
                     THEN IF remainingTime(took) = 0
                          THEN /\ hideTail(now + took)
                               /\ appState' = "ready"
                               /\ UNCHANGED <<hideTimer, hideDue>>
                          ELSE /\ hideTimer' = 1
                               /\ hideDue' = IF timed
                                             THEN now + took + remainingTime(took)
                                             ELSE hideDue
                               /\ appState' = "hiding"
                               /\ UNCHANGED <<loadingScreen, bodyOverflow, removeTimer,
                                              isLoading, loadCompleteTimer,
                                              removeDue, hiddenAt>>
                     ELSE /\ appState' = "ready"
                          /\ UNCHANGED <<loadingScreen, bodyOverflow, removeTimer,
                                         isLoading, loadCompleteTimer, hideTimer,
                                         hideDue, removeDue, hiddenAt>>
    /\ UNCHANGED <<envVars, rippleVars, choiceVars, cardIntersecting,
                   hoverVars, clickVars, videoVars, scrollVars, timed,
                   resizeTimeVars, mutEnv, escaped, menuVars, autoCloseTimers,
                   staleTimers, lastScrollTo, resizeVars, intersecting,
                   heroTimers>>

\* slow: minimumLoadTime has already elapsed when hide() is called.
AppInit(throwAt, slow, seed) ==
    AppInitTaking(throwAt, IF slow THEN MinimumLoadTime ELSE 0, seed)

\* ========================================================== initial states

\* A document without .reveal-animation elements.
NoRevealTargets ==
    /\ marked = {}
    /\ hero = {}
    /\ hasIntersectionObserver = TRUE

\* No video card in the document.
NoVideoCards ==
    /\ videoCards = {}
    /\ videoSrc = <<>>

\* The parts of the document a specification leaves out.
InitUnusedParts ==
    /\ NoVideoCards
    /\ timed = FALSE

\* The state when the script starts: nothing constructed, no inline style set.
InitProgram ==
    /\ now = StartTime
    /\ linkClick = NoLinkClick
    /\ ripples = <<>>
    /\ userToggled = FALSE
    /\ cardIntersecting = {}
    /\ lazy = [c \in videoCards |-> NoLazy]
    /\ hoverDepth = 0
    /\ preHover = [scale |-> 0, opacity |-> "none"]
    /\ pageYOffset = 0
    /\ scrollPosition = 0
    /\ navStyle = [background |-> <<"none", 0>>, boxShadow |-> "unset"]
    /\ lastExecTime = 0
    /\ throttleTimer = 0
    /\ throttleDue = 0
    /\ execCount = 0
    /\ prevExecAt = 0
    /\ lastExecAt = 0
    /\ startTime = 0
    /\ hideDue = 0
    /\ removeDue = 0
    /\ hiddenAt = 0
    /\ resizeDue = 0
    /\ orientationDue = {}
    /\ lastResizeAt = 0
    /\ orientationFired = {}
    /\ playCalls = [c \in videoCards |-> 0]
    /\ hoveredCard = 0
    /\ lastEvent = "none"
    /\ documentHidden = FALSE
    /\ appState = "start"
    /\ components = {}
    /\ minimalWired = FALSE
    /\ escaped = {}
    /\ intersecting \in SUBSET marked
    /\ observer = FALSE
    /\ observed = {}
    /\ reported = [e \in marked |-> "none"]
    /\ revealed = {}
    /\ dataDelay = [e \in marked |-> NoDelay]
    /\ lastTargets = {}
    /\ revealTimers = {}
    /\ heroTimers = {}
    /\ isLoading = TRUE
    /\ loadingScreen = [hidden |-> FALSE, displayNone |-> FALSE,
                        inDom |-> "loadingScreen" \in dom]
    /\ hideTimer = 0 /\ removeTimer = 0 /\ loadCompleteTimer = 0
    /\ isMenuOpen = FALSE
    /\ sidebar = [active |-> FALSE, ariaModal |-> "none"]
    /\ menuButton = [transform |-> "none", ariaExpanded |-> "none"]
    /\ bodyOverflow = "none"
    /\ autoCloseTimers = 0
    /\ staleTimers = 0
    /\ lastScrollTo = <<>>
    /\ currentTheme = "none" /\ dataTheme = "none"
    /\ toggleIcon = "none" /\ ariaPressed = "none"
    /\ bodyTransition = FALSE
    /\ transitionTimers = 0
    /\ ps = NoPS
    /\ container = {}
    /\ resizeTimer = 0 /\ orientationTimers = 0
    /\ rafQueue = {}
    /\ nextRafId = 1
    /\ cur = NoCursor
    /\ ring = [transform |-> NoTransform, opacity |-> "none"]
    /\ dot = [transform |-> NoTransform]

\* Navigation and loading overlay: any of the menu and overlay elements may be
\* missing; a narrow viewport, so no cursor and no particles.
InitNav ==
    /\ dom \in {DomElements \ x :
                  x \in SUBSET {"loadingScreen", "menuButton", "sidebar", "sidebarClose"}}
    /\ hasMatchMedia \in BOOLEAN
    /\ isLocalStorageAvailable = TRUE
    /\ storageDenied = FALSE
    /\ storedTheme = "none"
    /\ systemDark = FALSE
    /\ innerWidth = MobileWidth
    /\ prefersReducedMotion = FALSE
    /\ NoRevealTargets
    /\ InitUnusedParts
    /\ InitProgram

NextNav ==
    \/ \E throwAt \in 1..NoThrow, slow \in BOOLEAN : AppInit(throwAt, slow, 1)
    \/ MenuButtonClick
    \/ SidebarCloseClick
    \/ OutsideClick
    \/ EscapeKey
    \/ \E link \in {"navLink", "sidebarLink"}, targetExists \in BOOLEAN,
          offsetTop \in TargetOffsets : AnchorLinkClick(link, targetExists, offsetTop)
    \/ AutoCloseTimerFire
    \/ HideTimerFire
    \/ RemoveTimerFire
    \/ LoadCompleteTimerFire

SpecNav == InitNav /\ [][NextNav]_vars

\* A timer set with setTimeout fires: the browser runs the callback of the
\* 300 ms timer of setupSmoothScrolling.
SpecNavFair == SpecNav /\ WF_vars(AutoCloseTimerFire)

\* Theme: every storage and system-preference situation.  Storage that is
\* unavailable holds no readable value.
InitTheme ==
    /\ dom \in {DomElements \ x : x \in SUBSET {"themeToggle", "themeIcon"}}
    /\ hasMatchMedia \in BOOLEAN
    /\ isLocalStorageAvailable \in BOOLEAN
    /\ storageDenied = FALSE
    /\ storedTheme \in (IF isLocalStorageAvailable THEN {"none", "light", "dark"}
                        ELSE {"none"})
    /\ systemDark \in BOOLEAN
    /\ innerWidth = MobileWidth
    /\ prefersReducedMotion = FALSE
    /\ NoRevealTargets
    /\ InitUnusedParts
    /\ InitProgram

NextTheme ==
    \/ AppInit(NoThrow, FALSE, 1)
    \/ ThemeToggleClick
    \/ SystemSchemeChange
    \/ TransitionTimerFire

SpecTheme == InitTheme /\ [][NextTheme]_vars

\* Theme of the second variant: storage may be fully working, refuse writes
\* only, or refuse every access; window.matchMedia exists.
InitEducatumTheme ==
    /\ dom \in {DomElements \ x : x \in SUBSET {"themeToggle", "themeIcon"}}
    /\ hasMatchMedia = TRUE
    /\ isLocalStorageAvailable \in BOOLEAN
    /\ storageDenied \in (IF isLocalStorageAvailable THEN {FALSE} ELSE BOOLEAN)
    /\ storedTheme \in (IF isLocalStorageAvailable THEN {"none", "light", "dark"}
                        ELSE {"none"})
    /\ systemDark \in BOOLEAN
    /\ innerWidth = MobileWidth
    /\ prefersReducedMotion = FALSE
    /\ NoRevealTargets
    /\ InitUnusedParts
    /\ InitProgram

NextEducatumTheme ==
    \/ EducatumAppInit
    \/ EducatumThemeToggleClick
    \/ EducatumSystemSchemeChange
    \/ TransitionTimerFire

SpecEducatumTheme == InitEducatumTheme /\ [][NextEducatumTheme]_vars

\* The .reveal-animation elements of the document, numbered in document order.
RevealElements == {1, 2}

\* Reveal animations: the marked elements, the first ones inside .hero;
\* any of them may be in the viewport; with or without IntersectionObserver;
\* without matchMedia the CustomCursor constructor throws and
\* window.scrollAnimationManager stays unset.
InitReveal ==
    /\ dom = DomElements \ {"cursor", "cursorDot", "heroParticles"}
    /\ hasMatchMedia \in BOOLEAN
    /\ isLocalStorageAvailable = TRUE
    /\ storageDenied = FALSE
    /\ storedTheme = "none"
    /\ systemDark = FALSE
    /\ innerWidth = MobileWidth
    /\ prefersReducedMotion = FALSE
    /\ marked = RevealElements
    /\ hero \in {{e \in RevealElements : e <= n} : n \in 0..Cardinality(RevealElements)}
    /\ hasIntersectionObserver \in BOOLEAN
    /\ InitUnusedParts
    /\ InitProgram

\* Every timer the callbacks can set for these elements.
Indexes == 0..(Cardinality(RevealElements) - 1)
RevealTimerSet == [el : RevealElements, delay : {k * DelayStep : k \in Indexes}]
HeroTimerSet == [el : RevealElements, delay : {k * HeroDelayStep : k \in Indexes}]

NextReveal ==
    \/ AppInit(NoThrow, TRUE, 1)
    \/ LoadCompleteTimerFire
    \/ ObserveElementsCall
    \/ \E e \in RevealElements : IntersectionChange(e)
    \/ ObserverCallback
    \/ \E t \in RevealTimerSet : RevealTimerFire(t)
    \/ \E t \in HeroTimerSet : HeroTimerFire(t)
    \/ BeforeUnload

SpecReveal == InitReveal /\ [][NextReveal]_vars

\* A timer set with setTimeout fires.
SpecRevealFair ==
    SpecReveal /\ \A t \in RevealTimerSet : WF_vars(RevealTimerFire(t))

\* Particle field: no custom cursor elements, so the particle loop is the only
\* user of requestAnimationFrame.
InitParticles ==
    /\ dom \in {DomElements \ {"cursor", "cursorDot"},
                DomElements \ {"cursor", "cursorDot", "heroParticles"}}
    /\ hasMatchMedia = TRUE
    /\ isLocalStorageAvailable = TRUE
    /\ storageDenied = FALSE
    /\ storedTheme = "none"
    /\ systemDark = FALSE
    /\ innerWidth \in Widths
    /\ prefersReducedMotion \in BOOLEAN
    /\ NoRevealTargets
    /\ InitUnusedParts
    /\ InitProgram

NextParticles ==
    \/ \E seed \in Seeds : AppInit(NoThrow, FALSE, seed)
    \/ \E width \in Widths : Resize(width)
    \/ \E seed \in Seeds : ResizeTimerFire(seed)
    \/ OrientationChange
    \/ OrientationTimerFire
    \/ VisibilityHidden
    \/ VisibilityVisible
    \/ AnimationFrame
    \/ BeforeUnload

SpecParticles == InitParticles /\ [][NextParticles]_vars

\* Particle count: the widths include one above 50 * 30, where the cap of
\* createParticles applies; the random draws do not affect the count, so one
\* stream is used.
CountWidths == {768, 1200, 1530}

InitParticleCount ==
    /\ dom = DomElements \ {"cursor", "cursorDot"}
    /\ hasMatchMedia = TRUE
    /\ isLocalStorageAvailable = TRUE
    /\ storageDenied = FALSE
    /\ storedTheme = "none"
    /\ systemDark = FALSE
    /\ innerWidth \in CountWidths
    /\ prefersReducedMotion \in BOOLEAN
    /\ NoRevealTargets
    /\ InitUnusedParts
    /\ InitProgram

NextParticleCount ==
    \/ AppInit(NoThrow, FALSE, 1)
    \/ \E width \in CountWidths : Resize(width)
    \/ ResizeTimerFire(1)
    \/ OrientationChange
    \/ OrientationTimerFire
    \/ VisibilityHidden
    \/ VisibilityVisible
    \/ AnimationFrame
    \/ BeforeUnload

SpecParticleCount == InitParticleCount /\ [][NextParticleCount]_vars

\* The page without optional decoration: a narrow viewport, every looked-up
\* element present.
InitPlainPage ==
    /\ dom = DomElements \ {"cursor", "cursorDot", "heroParticles"}
    /\ hasMatchMedia = TRUE
    /\ isLocalStorageAvailable = TRUE
    /\ storageDenied = FALSE
    /\ storedTheme = "none"
    /\ systemDark = FALSE
    /\ innerWidth = MobileWidth
    /\ prefersReducedMotion = FALSE
    /\ NoRevealTargets

\* playVideo on one iframe, for every src up to MaxUrlLen pieces.
InitVideoUrl ==
    /\ InitPlainPage
    /\ timed = FALSE
    /\ videoCards = {1}
    /\ videoSrc \in [videoCards -> Urls(MaxUrlLen)]
    /\ InitProgram

NextVideoUrl ==
    \/ AppInit(NoThrow, FALSE, 1)
    \/ \E c \in videoCards : OverlayClick(c)
    \/ \E c \in videoCards : CardMouseEnter(c)

SpecVideoUrl == InitVideoUrl /\ [][NextVideoUrl]_vars

\* Two video cards, every src up to MaxUrlLen - 1 pieces.
InitVideo ==
    /\ InitPlainPage
    /\ timed = FALSE
    /\ videoCards = {1, 2}
    /\ videoSrc \in [videoCards -> Urls(MaxUrlLen - 1)]
    /\ InitProgram

NextVideo ==
    \/ AppInit(NoThrow, FALSE, 1)
    \/ \E c \in videoCards : OverlayClick(c)
    \/ \E c \in videoCards : CardMouseEnter(c)

SpecVideo == InitVideo /\ [][NextVideo]_vars

\* Lazy loading: two cards, every src up to two pieces, with and without
\* IntersectionObserver.
InitLazyVideo ==
    /\ dom = DomElements \ {"cursor", "cursorDot", "heroParticles"}
    /\ hasMatchMedia = TRUE
    /\ isLocalStorageAvailable = TRUE
    /\ storageDenied = FALSE
    /\ storedTheme = "none"
    /\ systemDark = FALSE
    /\ innerWidth = MobileWidth
    /\ prefersReducedMotion = FALSE
    /\ marked = {}
    /\ hero = {}
    /\ hasIntersectionObserver \in BOOLEAN
    /\ timed = FALSE
    /\ videoCards = {1, 2}
    /\ videoSrc \in [videoCards -> LazyUrls]
    /\ InitProgram

NextLazyVideo ==
    \/ AppInit(NoThrow, FALSE, 1)
    \/ \E c \in videoCards : CardIntersectionChange(c)
    \/ UpdateIntersectionObservations
    \/ \E c \in videoCards : LazyObserverCallback(c)

SpecLazyVideo == InitLazyVideo /\ [][NextLazyVideo]_vars

\* The second variant's video cards.
NextEducatumVideo ==
    \/ AppInit(NoThrow, FALSE, 1)
    \/ \E c \in videoCards : OverlayClick(c)
    \/ \E c \in videoCards : Educatum_CardMouseEnter(c)

SpecEducatumVideo == InitVideo /\ [][NextEducatumVideo]_vars

\* Rebuilds of the particle field against the clock: a wide viewport with the
\* particle container.
TickSteps == {8, 100}

InitResizeTimed ==
    /\ dom = DomElements \ {"cursor", "cursorDot"}
    /\ hasMatchMedia = TRUE
    /\ isLocalStorageAvailable = TRUE
    /\ storageDenied = FALSE
    /\ storedTheme = "none"
    /\ systemDark = FALSE
    /\ innerWidth = 1200
    /\ prefersReducedMotion = FALSE
    /\ NoRevealTargets
    /\ NoVideoCards
    /\ timed = TRUE
    /\ InitProgram

NextResizeTimed ==
    \/ AppInit(NoThrow, FALSE, 1)
    \/ Resize(1200)
    \/ ResizeTimerFire(1)
    \/ OrientationChange
    \/ OrientationTimerFire
    \/ \E d \in TickSteps : Tick(d, StartTime + MaxElapsed)

SpecResizeTimed == InitResizeTimed /\ [][NextResizeTimed]_vars

\* The loading overlay against the clock, with and without the overlay
\* element, for a startup of any length.
LoadTickSteps == {100, RemoveDelay}

InitLoadTimed ==
    /\ dom \in {DomElements \ {"cursor", "cursorDot", "heroParticles"},
                DomElements \ {"cursor", "cursorDot", "heroParticles", "loadingScreen"}}
    /\ hasMatchMedia = TRUE
    /\ isLocalStorageAvailable = TRUE
    /\ storageDenied = FALSE
    /\ storedTheme = "none"
    /\ systemDark = FALSE
    /\ innerWidth = MobileWidth
    /\ prefersReducedMotion = FALSE
    /\ NoRevealTargets
    /\ NoVideoCards
    /\ timed = TRUE
    /\ InitProgram

NextLoadTimed ==
    \/ \E took \in StartupTimes : AppInitTaking(NoThrow, took, 1)
    \/ HideTimerFire
    \/ RemoveTimerFire
    \/ LoadCompleteTimerFire
    \/ \E d \in LoadTickSteps : Tick(d, StartTime + (MaxLoadTicks * RemoveDelay))

SpecLoadTimed == InitLoadTimed /\ [][NextLoadTimed]_vars

\* The scroll handler against the clock, with and without the header.
ScrollOffsets == {0, 150}

InitScrollTimed ==
    /\ dom \in {DomElements \ {"cursor", "cursorDot", "heroParticles"},
                DomElements \ {"cursor", "cursorDot", "heroParticles", "nav"}}
    /\ hasMatchMedia = TRUE
    /\ isLocalStorageAvailable = TRUE
    /\ storageDenied = FALSE
    /\ storedTheme = "none"
    /\ systemDark \in BOOLEAN
    /\ innerWidth = MobileWidth
    /\ prefersReducedMotion = FALSE
    /\ NoRevealTargets
    /\ NoVideoCards
    /\ timed = TRUE
    /\ InitProgram

NextScrollTimed ==
    \/ AppInit(NoThrow, FALSE, 1)
    \/ \E y \in ScrollOffsets : Scroll(y)
    \/ ThrottleTimerFire
    \/ \E d \in TickSteps : Tick(d, StartTime + MaxElapsed)

SpecScrollTimed == InitScrollTimed /\ [][NextScrollTimed]_vars

\* The scroll handler when the user stops scrolling: scroll events come
\* until StartTime + MaxElapsed, time goes on, and a timeout that is due
\* fires in the end.
NextScrollFair ==
    \/ AppInit(NoThrow, FALSE, 1)
    \/ \E y \in ScrollOffsets : (now <= StartTime + MaxElapsed /\ Scroll(y))
    \/ ThrottleTimerFire
    \/ \E d \in TickSteps : Tick(d, StartTime + MaxElapsed)
    \/ TickToThrottleDue

SpecScrollFair ==
    /\ InitScrollTimed
    /\ [][NextScrollFair]_vars
    /\ WF_vars(ThrottleTimerFire)
    /\ WF_vars(TickToThrottleDue)

\* The category card against the clock, with and without its inner link.
RippleTickSteps == {200, RippleDelay}

InitRippleTimed ==
    /\ dom \in {DomElements \ {"cursor", "cursorDot", "heroParticles"},
                DomElements \ {"cursor", "cursorDot", "heroParticles", "categoryLink"}}
    /\ hasMatchMedia = TRUE
    /\ isLocalStorageAvailable = TRUE
    /\ storageDenied = FALSE
    /\ storedTheme = "none"
    /\ systemDark = FALSE
    /\ innerWidth = MobileWidth
    /\ prefersReducedMotion = FALSE
    /\ NoRevealTargets
    /\ NoVideoCards
    /\ timed = TRUE
    /\ InitProgram

NextRippleTimed ==
    \/ AppInit(NoThrow, FALSE, 1)
    \/ \E onLink \in BOOLEAN : CategoryCardClick(onLink)
    \/ RippleTimerFire
    \/ \E d \in RippleTickSteps : Tick(d, StartTime + MaxRipples * RippleDelay)

SpecRippleTimed == InitRippleTimed /\ [][NextRippleTimed]_vars

\* The menu of the second variant: any of the menu elements may be missing;
\* the overlay and the theme toggle are present, storage works.
InitEducatumNav ==
    /\ dom \in {DomElements \ x : x \in SUBSET {"menuButton", "sidebar", "sidebarClose"}}
    /\ hasMatchMedia = TRUE
    /\ isLocalStorageAvailable = TRUE
    /\ storageDenied = FALSE
    /\ storedTheme = "none"
    /\ systemDark = FALSE
    /\ innerWidth = MobileWidth
    /\ prefersReducedMotion = FALSE
    /\ NoRevealTargets
    /\ InitUnusedParts
    /\ InitProgram

NextEducatumNav ==
    \/ EducatumAppInit
    \/ EducatumMenuButtonClick
    \/ EducatumSidebarCloseClick
    \/ EducatumOutsideClick
    \/ EducatumEscapeKey
    \/ HideTimerFire
    \/ RemoveTimerFire

SpecEducatumNav == InitEducatumNav /\ [][NextEducatumNav]_vars

\* Navigation links: the header and the sidebar may be missing; every kind of
\* href is clicked, with and without a target.
InitNavLinks ==
    /\ dom \in {DomElements \ x : x \in SUBSET {"nav", "sidebar"}}
    /\ hasMatchMedia = TRUE
    /\ isLocalStorageAvailable = TRUE
    /\ storageDenied = FALSE
    /\ storedTheme = "none"
    /\ systemDark = FALSE
    /\ innerWidth = MobileWidth
    /\ prefersReducedMotion = FALSE
    /\ NoRevealTargets
    /\ InitUnusedParts
    /\ InitProgram

NextNavLinks ==
    \/ AppInit(NoThrow, FALSE, 1)
    \/ MenuButtonClick
    \/ \E link \in {"navLink", "sidebarLink"}, href \in Hrefs, targetExists \in BOOLEAN,
          offsetTop \in TargetOffsets : NavLinkClick(link, href, targetExists, offsetTop)
    \/ AutoCloseTimerFire
    \/ HideTimerFire
    \/ RemoveTimerFire
    \/ LoadCompleteTimerFire

SpecNavLinks == InitNavLinks /\ [][NextNavLinks]_vars

\* Custom cursor: no particle container.
InitCursor ==
    /\ dom \in {DomElements \ {"heroParticles"},
                DomElements \ {"heroParticles", "cursorDot"}}
    /\ hasMatchMedia = TRUE
    /\ isLocalStorageAvailable = TRUE
    /\ storageDenied = FALSE
    /\ storedTheme = "none"
    /\ systemDark = FALSE
    /\ innerWidth \in Widths
    /\ prefersReducedMotion = FALSE
    /\ NoRevealTargets
    /\ InitUnusedParts
    /\ InitProgram

NextCursor ==
    \/ AppInit(NoThrow, FALSE, 1)
    \/ \E p \in MousePoints : MouseMove(p)
    \/ MouseEnterInteractive
    \/ MouseLeaveInteractive
    \/ AnimationFrame
    \/ BeforeUnload

SpecCursor == InitCursor /\ [][NextCursor]_vars

\* ================================================================== claims

AllComponents == {Order[i] : i \in 1..Len(Order)}
ParticleCallbacks == {cb \in rafQueue : cb.owner = "particles" /\ cb.gen = ps.gen}
CursorCallbacks == {cb \in rafQueue : cb.owner = "cursor"}
SystemTheme == IF hasMatchMedia /\ systemDark THEN "dark" ELSE "light"

\* C1 (as claimed): in every reachable state the body scroll is locked
\* (overflow 'hidden') if and only if the menu is open.
C1_ScrollLockedIffMenuOpen == (bodyOverflow = "hidden") <=> isMenuOpen

\* C2 (as claimed): once init() has returned after a constructor threw in
\* initializeComponents, the loading overlay is hidden, the body scroll is not
\* locked while the menu is closed, and a click on the menu button toggles the
\* sidebar's 'active' class.
C2_DegradedStartupUsable ==
    (appState = "ready" /\ components # AllComponents) =>
        /\ "loadingScreen" \in dom =>
              (loadingScreen.hidden \/ loadingScreen.displayNone \/ ~loadingScreen.inDom)
        /\ ~isMenuOpen => bodyOverflow # "hidden"
        /\ ("menuButton" \in dom /\ "sidebar" \in dom) =>
              menuButtonClick(NavState).sidebar.active # sidebar.active

\* C3 (as claimed): every particle's x and y are within [0,100] after any
\* number of animate() frame advances.
C3_PositionsWithinBounds ==
    \A i \in DOMAIN ps.particles :
        /\ ps.particles[i].x \in 0..PosMax
        /\ ps.particles[i].y \in 0..PosMax

\* C3 (amended): every particle's x and y are within [0 - 0.5, 100 + 0.5] after
\* any number of animate() frame advances: a coordinate leaves [0,100] by at
\* most one frame's travel.
C3_PositionsWithinOneStep ==
    \A i \in DOMAIN ps.particles :
        /\ ps.particles[i].x \in (0 - VMax)..(PosMax + VMax)
        /\ ps.particles[i].y \in (0 - VMax)..(PosMax + VMax)

\* C3 witness: a frame has moved a particle across a boundary.
C3_Witness ==
    /\ lastEvent = "animationFrame"
    /\ \E i \in DOMAIN ps.particles :
          \/ ps.particles[i].x < 0 \/ ps.particles[i].x > PosMax
          \/ ps.particles[i].y < 0 \/ ps.particles[i].y > PosMax

\* C4 (as claimed): once init() has created the field, the frame loop is
\* running: a frame callback of the active field is pending, so the next frame
\* advances the particles with no other event needed.
C4_LoopRunningAfterInit ==
    (ps.isActive /\ ps.particles # <<>>) => ParticleCallbacks # {}

\* C5 (as claimed): after CustomCursor.destroy() the cursor frame loop is not
\* active: no frame callback of the cursor is pending.
C5_NoCursorLoopAfterDestroy ==
    cur.destroyCalls > 0 => CursorCallbacks = {}

\* C6: after ParticleSystem.destroy(), called once or several times, none of
\* the instance's elements is in the container and its particle list is empty,
\* whatever frames or visibility events follow; the container never holds an
\* element of a replaced (destroyed) instance.
C6_DestroyedFieldIsGone ==
    /\ \A e \in container : e[1] = ps.gen
    /\ ps.destroyCalls > 0 => (ps.particles = <<>> /\ container = {})

\* C6 witness: a field that was created and animated has been destroyed twice,
\* and a frame ran after that.
C6_Witness ==
    /\ ps.created > 0
    /\ ps.animationFrameId > 0
    /\ ps.destroyCalls = 2
    /\ lastEvent = "animationFrame"

\* C7 (as claimed): at most one frame callback is pending for the particle
\* field at any time.
C7_AtMostOneParticleLoop == Cardinality(ParticleCallbacks) <= 1

\* C8: a system colour-scheme change that arrives while a theme preference is
\* stored leaves currentTheme and the root data-theme attribute unchanged.
C8_StoredPreferenceWins ==
    [][(lastEvent' = "systemSchemeChange" /\ storedTheme # "none")
          => (currentTheme' = currentTheme /\ dataTheme' = dataTheme)]_vars

\* C8 witness: a toggle after startup stored the preference (two transition
\* timers are pending: the constructor's and one more applyTheme, and with a
\* preference stored only toggleTheme applies a theme), and the system change
\* that arrived last was not followed.
C8_Witness ==
    /\ lastEvent = "systemSchemeChange"
    /\ hasMatchMedia
    /\ "themeManager" \in components
    /\ storedTheme # "none"
    /\ transitionTimers = 2
    /\ currentTheme = storedTheme
    /\ currentTheme # SystemTheme

\* C9: with 'light' or 'dark' stored, getInitialTheme() returns the stored
\* value whatever the system preference is (the constructor keeps the result
\* in currentTheme).
C9_StoredThemeReturned ==
    (lastEvent = "init" /\ "themeManager" \in components
        /\ storedTheme \in {"light", "dark"}) => currentTheme = storedTheme

\* C9 witness: the stored value and the system preference disagree.
C9_Witness ==
    /\ lastEvent = "init"
    /\ "themeManager" \in components
    /\ storedTheme = "light" /\ hasMatchMedia /\ systemDark
    /\ currentTheme = "light"

\* C10: with nothing stored, getInitialTheme() returns 'dark' iff the system
\* preference reports dark and 'light' otherwise (also without matchMedia), and
\* after the initial load the root data-theme attribute has that value.
C10_SystemThemeWhenNothingStored ==
    (lastEvent = "init" /\ "themeManager" \in components /\ storedTheme = "none")
        => (currentTheme = SystemTheme /\ dataTheme = SystemTheme)

\* C10 witness: nothing stored, the system prefers dark, the root is dark.
C10_Witness ==
    /\ lastEvent = "init"
    /\ storedTheme = "none" /\ hasMatchMedia /\ systemDark
    /\ dataTheme = "dark"

\* C11: toggleTheme() called twice in a row returns the root data-theme
\* attribute and currentTheme to the values they had before the first call:
\* after every click that ran toggleTheme, one more toggleTheme gives back the
\* values of before the click.
C11_ToggleTwiceRestores ==
    [][(lastEvent' = "themeToggleClick" /\ "themeManager" \in components)
          => LET again == toggleTheme(ThemeState')
             IN /\ again.dataTheme = dataTheme
                /\ again.currentTheme = currentTheme]_vars

\* C11 witness: a click has toggled the theme away from the one applied at
\* startup (nothing was stored then, so startup applied the system theme).
C11_Witness ==
    /\ lastEvent = "themeToggleClick"
    /\ "themeManager" \in components
    /\ transitionTimers = 2
    /\ dataTheme # SystemTheme
    /\ currentTheme = dataTheme
    /\ toggleTheme(ThemeState).dataTheme = SystemTheme

\* C12: the persisted theme changes only in a step that runs toggleTheme
\* (startup, applyTheme and the system-preference listener leave it alone),
\* and right after every toggleTheme with storage available it equals the
\* root data-theme attribute.
C12_PersistedOnlyByToggle ==
    [][/\ (storedTheme' # storedTheme => lastEvent' = "themeToggleClick")
       /\ (lastEvent' = "themeToggleClick" /\ "themeManager" \in components
               /\ isLocalStorageAvailable) => storedTheme' = dataTheme']_vars

\* C12 witness: startup and a followed system change left storage empty,
\* then a click stored the theme it applied.
C12_Witness ==
    /\ lastEvent = "themeToggleClick"
    /\ "themeManager" \in components
    /\ isLocalStorageAvailable
    /\ transitionTimers = 2
    /\ bodyTransition
    /\ storedTheme = dataTheme
    /\ storedTheme \in {"light", "dark"}

\* C13: with client storage unavailable, or throwing on access, no exception
\* leaves the ThemeManager constructor or toggleTheme, startup applies the
\* system preference (or 'light'), and nothing is persisted.
C13_StorageFailureNeverEscapes ==
    /\ \A e \in escaped : e[2] # "storage"
    /\ (~isLocalStorageAvailable /\ lastEvent = "init")
          => (dataTheme = SystemTheme /\ currentTheme = SystemTheme)
    /\ ~isLocalStorageAvailable => storedTheme = "none"

\* The steps in which the document 'click' listener sees a click outside the
\* sidebar and the menu button.
OutsideClickEvents == {"outsideClick", "anchorLinkClick"}

\* C14: openMenu() followed by closeMenu() restores body overflow and the
\* menu-button transform to exactly the values they had before openMenu():
\* after every click that opened the menu, closeMenu() gives back the values
\* of before the click.
C14_OpenCloseRestores ==
    [][(lastEvent' = "menuButtonClick" /\ navWired /\ ~isMenuOpen /\ isMenuOpen')
          => LET closed == closeMenu(NavState')
             IN /\ closed.bodyOverflow = bodyOverflow
                /\ closed.menuButton.transform = menuButton.transform]_vars

\* C15 as stated: the menu leaves 'closed' only on a menu-button click and
\* leaves 'open' only on a close-button click, an outside click, Escape or
\* the 300 ms timer; an outside click or Escape while closed changes nothing.
C15_TransitionsAsStated ==
    [][/\ (~isMenuOpen /\ isMenuOpen') => lastEvent' = "menuButtonClick"
       /\ (isMenuOpen /\ ~isMenuOpen')
             => lastEvent' \in {"sidebarCloseClick", "escapeKey", "autoCloseTimer"}
                                   \cup OutsideClickEvents
       /\ (~isMenuOpen /\ lastEvent' \in {"outsideClick", "escapeKey"})
             => UNCHANGED <<menuVars, bodyOverflow>>]_vars

\* C15 amended: as stated, and a menu-button click also closes an open menu
\* (the button toggles).
C15_TransitionsWithToggle ==
    [][/\ (~isMenuOpen /\ isMenuOpen') => lastEvent' = "menuButtonClick"
       /\ (isMenuOpen /\ ~isMenuOpen')
             => lastEvent' \in {"menuButtonClick", "sidebarCloseClick", "escapeKey",
                                "autoCloseTimer"} \cup OutsideClickEvents
       /\ (~isMenuOpen /\ lastEvent' \in {"outsideClick", "escapeKey"})
             => UNCHANGED <<menuVars, bodyOverflow>>]_vars

\* C15 witness: a menu-button click has just closed the menu (only closeMenu
\* sets the button to rotate(0deg)).
C15_Witness ==
    /\ lastEvent = "menuButtonClick"
    /\ navWired
    /\ ~isMenuOpen
    /\ ~sidebar.active
    /\ menuButton.transform = "rotate(0deg)"

\* C16: a click on an internal hash link whose target exists while the menu
\* is open schedules the 300 ms timer, the timer closes the menu when it
\* fires, and the menu is eventually closed.
C16_AnchorClickClosesMenu ==
    /\ [][(lastEvent' = "anchorLinkClick" /\ isMenuOpen /\ lastScrollTo' # lastScrollTo)
             => autoCloseTimers' = autoCloseTimers + 1]_vars
    /\ [][lastEvent' = "autoCloseTimer" => ~isMenuOpen']_vars
    /\ ((isMenuOpen /\ autoCloseTimers > 0) ~> ~isMenuOpen)

\* C16 witness: a sidebar link was clicked while the menu was open; the page
\* scrolls, the menu is still open and the timer is pending.
C16_Witness ==
    /\ lastEvent = "anchorLinkClick"
    /\ isMenuOpen
    /\ sidebar.active
    /\ autoCloseTimers = 1
    /\ lastScrollTo # <<>>

\* C17: an element that has the 'revealed' state keeps it in every later
\* state, whatever runs afterwards (observer callback, observeElements(),
\* timers, fallbackReveal, destroy()).
C17_RevealedStaysRevealed == [][revealed \subseteq revealed']_vars

\* C17 witness: hero element 1 is revealed, no timer is pending any more, and
\* observeElements() has been called again afterwards.
C17_Witness ==
    /\ lastEvent = "observeElements"
    /\ observer
    /\ 1 \in revealed
    /\ 1 \in hero
    /\ heroTimers = {}
    /\ revealTimers = {}
    /\ lastTargets = marked \ {1}

\* C18: no element that carries the 'revealed' state is an observation target
\* of the reveal observer.
C18_RevealedIsUnobserved == revealed \cap observed = {}

\* C19: when the observer reports a not yet revealed element as intersecting,
\* a timer of index * 100 ms is set for it, index being its position among the
\* elements the latest observeElements() enumerated, and every element with
\* such a timer is eventually revealed, also when destroy() runs in between.
C19_RevealedAfterIndexDelay ==
    /\ [][lastEvent' = "observerCallback"
             => \A e \in (Entries \cap intersecting) \ revealed :
                   [el |-> e, delay |-> Position(e, lastTargets) * DelayStep]
                       \in revealTimers']_vars
    /\ \A t \in RevealTimerSet : (t \in revealTimers) ~> (t.el \in revealed)

\* C19 witness: without hero elements, element 2 was revealed by its timer of
\* 100 ms while element 1 is still hidden, and destroy() has run.
C19_Witness ==
    /\ lastEvent = "revealTimer"
    /\ observer
    /\ hero = {}
    /\ revealed = {2}
    /\ dataDelay[2] = DelayStep
    /\ ps.destroyCalls > 0

\* The step taken last ran observeElements(): a direct call, or the timer of
\* triggerLoadComplete with window.scrollAnimationManager set.
RanObserveElements ==
    \/ lastEvent = "observeElements"
    \/ (lastEvent = "loadCompleteTimer" /\ windowScrollAnimationManager)

\* C20: observeElements() never starts observing an element that is already
\* revealed, and a second call right after a first one leaves the observed
\* set and every data-delay as the first call left them.
C20_ObserveElementsIdempotent ==
    [][/\ (observed' \ observed) \cap revealed = {}
       /\ (RanObserveElements /\ lastEvent' = "observeElements")
             => (observed' = observed /\ dataDelay' = dataDelay)]_vars

\* C20 witness: element 1 is revealed; the call that ran last enumerated and
\* observes element 2 only, as the first of the list.
C20_Witness ==
    /\ lastEvent = "observeElements"
    /\ observer
    /\ revealed = {1}
    /\ lastTargets = {2}
    /\ observed = {2}
    /\ dataDelay[2] = 0

\* C21: without IntersectionObserver every marked element is revealed during
\* the construction of ScrollAnimationManager, no reveal timer is ever set,
\* nothing is observed, and observeElements() changes nothing afterwards.
C21_FallbackRevealsAtOnce ==
    /\ [](("scrollAnimationManager" \in components /\ ~hasIntersectionObserver)
            => (revealed = marked /\ revealTimers = {} /\ observed = {} /\ ~observer))
    /\ [][(lastEvent' = "observeElements" /\ ~hasIntersectionObserver)
            => UNCHANGED <<observer, observed, reported, revealed, dataDelay,
                           revealTimers>>]_vars

\* C21 witness: no IntersectionObserver, both elements revealed, and
\* observeElements() has been called afterwards.
C21_Witness ==
    /\ lastEvent = "observeElements"
    /\ ~hasIntersectionObserver
    /\ "scrollAnimationManager" \in components
    /\ revealed = RevealElements
    /\ observed = {}

\* C22 (as claimed): a field whose init() found the viewport at most 768px wide
\* or reduced motion requested has no particle element and no frame loop, and
\* stays so through any later page-hidden and page-visible events.
C22_NoFieldBelowWidth ==
    (ps.initWidth # 0 /\ (ps.initWidth <= MobileWidth \/ prefersReducedMotion))
        => (ps.particles = <<>> /\ container = {} /\ ParticleCallbacks = {})

\* C23: after startup and after any sequence of resize and orientation-change
\* rebuilds the container holds min(50, floor(w/30)) particle elements for the
\* width w that the latest init() read when w > 768 and reduced motion is off
\* (40 for w = 1200), and none otherwise; every element belongs to the current
\* field, so elements of earlier fields do not accumulate.
C23_CountFollowsLatestInit ==
    /\ particleCount(1200) = 40
    /\ (appState # "start" /\ ps.destroyCalls = 0) =>
          /\ \A e \in container : e[1] = ps.gen
          /\ Cardinality(container) =
                IF ps.initWidth > MobileWidth /\ ~prefersReducedMotion
                THEN Min(50, ps.initWidth \div 30)
                ELSE 0

\* C23 witness: a rebuild at width 1200 has made the second field, of 40
\* elements.
C23_Witness ==
    /\ lastEvent = "resizeTimer"
    /\ ps.gen = 2
    /\ ps.initWidth = 1200
    /\ Cardinality(container) = 40

\* k frames of one particle.
RECURSIVE advanceTimes(_, _)
advanceTimes(p, k) == IF k = 0 THEN p ELSE advanceTimes(advance(p), k - 1)

\* What every pending animate() callback of the current field does to the
\* particles in one frame tick.
ParticlesAfterTick ==
    [i \in DOMAIN ps.particles |->
        advanceTimes(ps.particles[i], Cardinality(ParticleCallbacks))]

\* C25: between a page-hidden event and the next page-visible event no frame
\* tick changes the particle field, also when a resize rebuild happened while
\* hidden; the page-visible event leaves the loop of the field running, and a
\* frame tick of a running loop updates the positions and keeps the loop
\* running.
C25_NoUpdateWhileHidden ==
    /\ [][(documentHidden /\ lastEvent' = "animationFrame") => ps' = ps]_vars
    /\ [][(lastEvent' = "visibilityVisible" /\ "particleSystem" \in components)
            => (ps'.isActive /\ ParticleCallbacks' # {})]_vars
    /\ [][(lastEvent' = "animationFrame" /\ ps.isActive /\ ParticleCallbacks # {})
            => /\ ~documentHidden
               /\ ps'.particles = ParticlesAfterTick
               /\ ps'.animationFrameId > ps.animationFrameId
               /\ ParticleCallbacks' # {}]_vars

\* C25 witness: a frame tick ran while the page was hidden, after a resize
\* rebuild made a new field of particles while hidden.
C25_Witness ==
    /\ lastEvent = "animationFrame"
    /\ documentHidden
    /\ ps.gen = 2
    /\ ps.created > 0
    /\ ps.isActive

\* The number of times 'autoplay=1' occurs in the src of card c.
AutoplayCount(c) == Cardinality(Occurrences(videoSrc[c], AutoplayParam))

\* C26 (as claimed): for every src, after two or more playVideo calls in a row
\* the src contains the autoplay parameter exactly once, and the second and
\* later calls leave the src unchanged.
C26_AutoplayExactlyOnce ==
    /\ [](\A c \in videoCards : playCalls[c] >= 2 => AutoplayCount(c) = 1)
    /\ [][\A c \in videoCards :
            (playCalls[c] >= 1 /\ playCalls'[c] = playCalls[c] + 1)
                => videoSrc'[c] = videoSrc[c]]_vars

\* C26 (amended): a playVideo call on a non-empty src without the autoplay
\* parameter yields a src with the parameter exactly once; a call on an empty
\* src or on one that has the parameter already (once or more often) leaves it
\* unchanged; so the second and later calls in a row change nothing.
C26_AutoplayOnceUnlessPresent ==
    [][\A c \in videoCards :
          playCalls'[c] = playCalls[c] + 1 =>
             /\ (videoSrc[c] # <<>> /\ AutoplayCount(c) = 0)
                   => Cardinality(Occurrences(videoSrc'[c], AutoplayParam)) = 1
             /\ (videoSrc[c] = <<>> \/ AutoplayCount(c) >= 1)
                   => videoSrc'[c] = videoSrc[c]
             /\ playCalls[c] >= 1 => videoSrc'[c] = videoSrc[c]]_vars

\* C26 witness: three playVideo calls in a row on a src that had no autoplay
\* parameter left it with the parameter appended once.
C26_Witness ==
    /\ lastEvent = "overlayClick"
    /\ playCalls[1] = 3
    /\ Len(videoSrc[1]) = 2 + Len(AutoplaySuffix)
    /\ videoSrc[1] = SubSeq(videoSrc[1], 1, 2) \o AutoplaySuffix
    /\ AutoplayCount(1) = 1

\* C27 (as claimed): when the pointer enters a video card, every other card
\* whose src carries '&autoplay=1' has it stripped, and the src of the entered
\* card is unchanged.
C27_HoverPausesOthers ==
    [][lastEvent' = "cardMouseEnter" =>
          \A c \in videoCards :
             IF c = hoveredCard'
             THEN videoSrc'[c] = videoSrc[c]
             ELSE includes(videoSrc[c], AutoplaySuffix)
                    => videoSrc'[c] = replace(videoSrc[c], AutoplaySuffix, <<>>)]_vars

\* C24: a rebuild of the particle field happens only with the debounce timeout
\* pending and leaves none pending, so each burst of resize events is followed
\* by one rebuild; it happens no earlier than 16 ms after the latest resize
\* event, so not inside a burst whose events are less than 16 ms apart, and no
\* earlier than 100 ms after every orientation change that led to it; every
\* resize event and every orientation timeout leaves a rebuild pending; a
\* rebuild destroys the old field before it creates the new one, so the
\* container holds elements of the new field only.
C24_OneRebuildAfterBurst ==
    /\ [][lastEvent' = "resizeTimer" =>
            /\ resizeTimer = 1 /\ resizeTimer' = 0
            /\ ps'.gen = ps.gen + 1
            /\ now >= lastResizeAt + DebounceDelay
            /\ \A t \in orientationFired : now >= t + OrientationDelay
            /\ \A e \in container' : e[1] = ps'.gen
            /\ Cardinality(container') = particleCount(innerWidth)]_vars
    /\ [][lastEvent' \in {"resize", "orientationTimer"} => resizeTimer' = 1]_vars
    /\ [][ps'.gen # ps.gen => lastEvent' \in {"init", "resizeTimer"}]_vars

\* C24 witness: the second field was built by the debounce timeout, firing at
\* the moment it was due after a resize event, with no orientation timeout left.
C24_Witness ==
    /\ lastEvent = "resizeTimer"
    /\ ps.gen = 2
    /\ lastResizeAt > StartTime
    /\ now = lastResizeAt + DebounceDelay
    /\ orientationTimers = 0

\* C28: on the normal startup path the overlay gets class 'hidden' no sooner
\* than 1500 ms after LoadingManager was constructed, whatever time startup
\* took, and it leaves the document only when hidden, no sooner than 500 ms
\* after it got the class.
C28_HiddenAfterMinimumLoadTime ==
    /\ [][(loadingScreen'.hidden /\ ~loadingScreen.hidden)
            => (now' >= startTime' + MinimumLoadTime /\ hiddenAt' = now')]_vars
    /\ [][(loadingScreen.inDom /\ ~loadingScreen'.inDom)
            => (loadingScreen.hidden /\ now >= hiddenAt + RemoveDelay)]_vars

\* C28 witness: after a startup of 600 ms the overlay was hidden when the
\* remaining 900 ms were over and has been removed 500 ms after that.
C28_Witness ==
    /\ lastEvent = "removeTimer"
    /\ ~loadingScreen.inDom
    /\ loadingScreen.hidden
    /\ hiddenAt = startTime + MinimumLoadTime
    /\ now = hiddenAt + RemoveDelay

\* C30 (as claimed): any two executions of the scroll handler are at least
\* 100 ms apart, whenever the scroll events come and however late the timeout
\* of the throttle fires.
C30_ExecutionsThrottled ==
    execCount >= 2 => lastExecAt - prevExecAt >= ThrottleDelay

\* C29 (as claimed): whichever of the optional elements are missing, startup
\* completes with every component constructed, no event handler lets an
\* exception out afterwards, and a missing sidebar or menu button leaves the
\* menu state and the page scroll alone.
C29_MissingElementsDegrade ==
    /\ appState # "start" => components = AllComponents
    /\ escaped = {}
    /\ ("sidebar" \notin dom \/ "menuButton" \notin dom)
          => (~isMenuOpen /\ bodyOverflow # "hidden")

\* C31: every click on a navigation link whose href starts with '#' has its
\* default action prevented; when the target exists exactly one smooth scroll
\* is issued, to the target's offset minus the measured header height (70
\* without a header) minus 20, and when it does not exist none is issued.
C31_AnchorClickScrollsOnce ==
    [][(lastEvent' = "anchorLinkClick" /\ linkClick'.href \in {"#", "#id"})
          => /\ linkClick'.defaultPrevented
             /\ linkClick'.targetExists =>
                   /\ Len(linkClick'.scrolls) = 1
                   /\ linkClick'.scrolls[1] =
                         linkClick'.offsetTop
                           - (IF "nav" \in dom THEN NavOffsetHeight ELSE 70) - 20
                   /\ lastScrollTo' = linkClick'.scrolls
             /\ ~linkClick'.targetExists =>
                   /\ linkClick'.scrolls = <<>>
                   /\ lastScrollTo' = lastScrollTo]_vars

\* C31 witness: a hash link with a target was clicked on a page without a
\* header, and the page was scrolled to the offset minus 90.
C31_Witness ==
    /\ lastEvent = "anchorLinkClick"
    /\ "nav" \notin dom
    /\ linkClick.href = "#id"
    /\ linkClick.targetExists
    /\ linkClick.offsetTop = 600
    /\ linkClick.defaultPrevented
    /\ linkClick.scrolls = <<510>>

Outside(c) == c < 0 \/ c > PosMax

\* |v|
Speed(v) == IF v < 0 THEN -v ELSE v

\* C33: on each axis a particle's coordinate never leaves [0 - s, 100 + s],
\* where s <= 0.5 is the axis' speed, and it is never outside [0,100] on two
\* consecutive frames: the frame after a boundary crossing brings the
\* coordinate back inside.
C33_OvershootOneFrame ==
    /\ [](\A i \in DOMAIN ps.particles :
            LET p == ps.particles[i]
            IN /\ Speed(p.vx) <= VMax /\ Speed(p.vy) <= VMax
               /\ p.x >= 0 - Speed(p.vx) /\ p.x <= PosMax + Speed(p.vx)
               /\ p.y >= 0 - Speed(p.vy) /\ p.y <= PosMax + Speed(p.vy))
    /\ [][(lastEvent' = "animationFrame" /\ ps.isActive /\ ps'.gen = ps.gen)
            => \A i \in DOMAIN ps.particles :
                  /\ Outside(ps.particles[i].x) => ~Outside(ps'.particles[i].x)
                  /\ Outside(ps.particles[i].y) => ~Outside(ps'.particles[i].y)]_vars

\* C33 witness: a frame has brought a particle back inside: its x is in
\* [0,100] and was outside one frame earlier.
C33_Witness ==
    /\ lastEvent = "animationFrame"
    /\ ps.isActive
    /\ \E i \in DOMAIN ps.particles :
          /\ ~Outside(ps.particles[i].x)
          /\ Outside(ps.particles[i].x - ps.particles[i].vx)

\* C34: while the pointer is over an interactive element the ring keeps its
\* 1.5x scale and its reduced opacity on every animation frame, and after the
\* pointer has left, the ring's scale and opacity are the ones it had before
\* the hover (the opacity is compared when the script had set one before the
\* hover; otherwise the stylesheet's value applied, which the script never
\* reads).
C34_HoverScaleKept ==
    /\ []((cur.initialized /\ hoverDepth > 0)
             => (ring.transform.scale > 0 /\ ring.opacity = "0.6"))
    /\ [][(lastEvent' = "mouseLeave" /\ hoverDepth = 1)
             => /\ ring'.transform.scale = preHover.scale
                /\ preHover.opacity # "none" => ring'.opacity = preHover.opacity]_vars

\* C35: for each video card whose embed does not already autoplay, at most
\* one preconnect hint is injected, on the card's first intersection with the
\* viewport, and the embed is no longer observed after that, however many
\* intersection callbacks follow.
C35_OnePreconnectPerCard ==
    /\ [](\A c \in videoCards :
            /\ lazy[c].hints <= 1
            /\ lazy[c].hints = 1 => ~lazy[c].observed)
    /\ [][\A c \in videoCards :
            lazy'[c].hints > lazy[c].hints
               => (lazy[c].hints = 0 /\ lazy[c].observed)]_vars

\* C36: a delayed auto-close set by an anchor-link click closes only the menu
\* that was open when the link was clicked: when the menu was closed and
\* opened again before the timer fires, the stale timer leaves the re-opened
\* menu open.
C36_StaleTimerKeepsMenu ==
    [][(lastEvent' = "autoCloseTimer" /\ staleTimers > 0 /\ isMenuOpen)
          => isMenuOpen']_vars

\* C37: once the user has toggled the theme, no later change of the system
\* colour scheme alters the applied theme, also when storage is unavailable
\* and the choice could not be persisted.
C37_ChoiceSurvivesSystemChange ==
    [][(userToggled /\ lastEvent' = "systemSchemeChange")
          => (currentTheme' = currentTheme /\ dataTheme' = dataTheme)]_vars

\* Whether the header's background and shadow are the ones the handler sets
\* for the current scroll offset.
NavMatchesOffset ==
    IF pageYOffset > 100
    THEN navStyle.background[2] = 98
         /\ navStyle.boxShadow = "0 5px 25px rgba(0, 0, 0, 0.1)"
    ELSE navStyle.background[2] # 98
         /\ navStyle.boxShadow # "0 5px 25px rgba(0, 0, 0, 0.1)"

\* C38: after scroll events stop, the throttled handler runs after the last
\* event, so the header's background and shadow end up matching whether the
\* final scroll offset exceeds 100px: whenever the header does not match the
\* offset a timeout of throttle is pending, and the header matches again
\* later.
C38_FinalOffsetApplied ==
    /\ [](("nav" \in dom /\ ~NavMatchesOffset) => throttleTimer = 1)
    /\ (("nav" \in dom /\ ~NavMatchesOffset) ~> NavMatchesOffset)
    /\ <>[]("nav" \in dom => NavMatchesOffset)

\* C38 witness: the last scroll event came within the delay and moved the
\* page beyond 100px; the timeout has run the handler and the header has its
\* scrolled look.
C38_Witness ==
    /\ lastEvent = "throttleTimer"
    /\ "nav" \in dom
    /\ pageYOffset = 150
    /\ lastExecAt > prevExecAt
    /\ navStyle.background[2] = 98
    /\ navStyle.boxShadow = "0 5px 25px rgba(0, 0, 0, 0.1)"

\* C39: each click of the user on a category card adds exactly one ripple
\* element to that card, also when the click is forwarded to the card's inner
\* link, and every ripple element is removed 600 ms after it was created, so
\* none remains once clicks stop (a ripple leaves by its own timeout, not
\* before the 600 ms are over).
C39_OneRipplePerClick ==
    /\ [][lastEvent' = "categoryCardClick" => Len(ripples') = Len(ripples) + 1]_vars
    /\ [][lastEvent' = "rippleTimer"
            => /\ ripples' = Tail(ripples)
               /\ now >= Head(ripples) + 600]_vars

==============================================================================
